---------------------------- MODULE Spec2Model ----------------------------
(***************************************************************************)
(* A model of the structure-preserving rewrite engine of black:           *)
(*   - the pipeline orchestrator and verifier (src/black/__init__.py),     *)
(*   - the string literal normalizer (src/black/strings.py),               *)
(*   - the comment extractor and the format-region isolator                *)
(*     (src/black/comments.py).                                            *)
(* The specifications share the variables: Spec (the orchestrator and its  *)
(* callers), SpecQuotes (string normalization), SpecFmt (region            *)
(* isolation), SpecFString, SpecDocstring, SpecMakeComment,                *)
(* SpecListComments and SpecPrefix (the text functions, each applied to    *)
(* bounded inputs) and SpecSchedule (the concurrent formatting of several  *)
(* files).                                                                 *)
(***************************************************************************)
EXTENDS Integers, Sequences, FiniteSets, TLC

VARIABLES
    \* ---- orchestrator (Spec) ----
    entry,      \* which function the driver called
    src,        \* src_contents
    fast,       \* the fast flag
    is_ipynb,   \* mode.is_ipynb
    write_back, \* WriteBack value handed to the caller
    pc,         \* position in the call
    dst,        \* dst_contents of format_file_contents once computed
    exc,        \* the exception in flight ("none" when there is none)
    result,     \* the text format_file_contents returned (NoText: nothing)
    rendered,   \* what format_str gave for each text it was called on
    log,        \* the calls made so far, in order
    disk,       \* content of the file under src (format_file_in_place)
    stdout,     \* what was written to standard output, in order
    ret,        \* the caller's return value: "none", "True", "False"
    cellidx,    \* format_ipynb_string: index of the cell being handled
    nbcells,    \* format_ipynb_string: nb["cells"], sources as updated so far
    modified,   \* format_ipynb_string: the modified flag
    chk,        \* check_stability_and_equivalence: its <<src, dst>> arguments
    report,     \* the calls of report.done and report.failed, in order
    \* ---- string normalizer (SpecQuotes) ----
    qin,        \* the string literal handed to normalize_string_quotes
    qout,       \* its result
    qout2,      \* the result of normalizing the result once more
    qpc,
    \* ---- format-region isolator (SpecFmt) ----
    source,            \* the text that was parsed
    tree,              \* the nodes of the parse tree, by index
    fpc,               \* position in normalize_fmt_off
    leaf_index,        \* convert_one_fmt_off_pair: position in node.leaves()
    comments_left,     \* the comments of the leaf's prefix still to visit
    comment,           \* the comment being handled
    previous_consumed, \* convert_one_fmt_off_pair: previous_consumed
    container,         \* generate_ignored_nodes: container (0: None)
    ignored_nodes,     \* the nodes generate_ignored_nodes yielded so far
    frozen,            \* the conversions made so far, in order
    \* ---- text functions (SpecFString, SpecDocstring, SpecMakeComment,
    \*      SpecListComments) ----
    tfn,        \* the function called ("none" when there is none)
    targ,       \* its first argument
    targ2,      \* its second argument ("" when it has one argument)
    tout,       \* what it returned
    tpc,
    \* ---- concurrent formatting of several files (SpecSchedule) ----
    check,            \* the --check option of the run
    diff,             \* the --diff option of the run
    color,            \* the --color option of the run
    swrite_back,      \* write_back of the run
    persisted,        \* the sources whose fingerprint the stored cache holds
    spc,              \* position in schedule_formatting
    pending,          \* the keys of tasks: the sources whose task is kept
    status,           \* the state of the future of each source
    wpc,              \* the position of the worker that formats each source
    lock,             \* -1: None, 0: free, or the source whose worker holds it
    out,              \* standard output: <<source, part of its diff>>
    files,            \* whether each file was rewritten
    sreport,          \* the calls of report.done and report.failed
    cancelled,        \* the cancelled list
    sources_to_cache, \* the sources_to_cache list
    cache,            \* the sources written to the cache
    done_tasks        \* the set done that the for loop goes through

orchVars == <<entry, src, fast, is_ipynb, write_back, pc, dst, exc, result,
              rendered, log, disk, stdout, ret, cellidx, nbcells, modified,
              chk, report>>
quoteVars == <<qin, qout, qout2, qpc>>
fmtVars == <<source, tree, fpc, leaf_index, comments_left, comment,
             previous_consumed, container, ignored_nodes, frozen>>
textVars == <<tfn, targ, targ2, tout, tpc>>
schedVars == <<check, diff, color, swrite_back, persisted, spc, pending, status, wpc, lock, out, files,
               sreport, cancelled, sources_to_cache, cache, done_tasks>>
vars == <<orchVars, quoteVars, fmtVars, textVars, schedVars>>

\* the parameters of the call
params == <<entry, src, fast, is_ipynb, write_back>>
\* what the orchestrator leaves alone
notOrch == <<quoteVars, fmtVars, textVars, schedVars>>
\* what the string normalizer leaves alone
notQuotes == <<orchVars, fmtVars, textVars, schedVars>>
\* what the format-region isolator leaves alone
notFmt == <<orchVars, quoteVars, textVars, schedVars>>
\* what the text functions leave alone
notText == <<orchVars, quoteVars, fmtVars, schedVars>>
\* what the concurrent run leaves alone
notSched == <<orchVars, quoteVars, fmtVars, textVars>>

---------------------------------------------------------------------------
(* Bounds of the model *)

\* layouts (cosmetic renderings) a structural content can have: 0..MaxLay
MaxLay == 1
\* code cells of a notebook
MaxCells == 2

---------------------------------------------------------------------------
(* Texts.  A source text is abstracted to what the orchestrator can        *)
(* observe of it: whether it is whitespace-only, its structural content    *)
(* (what parse_ast/stringify_ast give, "bad" when it does not parse) and   *)
(* its cosmetic layout.  Layout 0 is the text without a final newline,     *)
(* layout 1 is that same text with the newline appended, layouts 2.. are   *)
(* other renderings, which end with a newline.  Two texts are the same     *)
(* string iff the records are equal.                                       *)

ASTs == {"a", "b"}

Text(k, a, l, c) == [kind |-> k, ast |-> a, lay |-> l, cells |-> c]

NoText == Text("none", "none", 0, <<>>)
\* the empty string
EmptyText == Text("blank", "none", 0, <<>>)

\* "" and "\n"
BlankTexts == {Text("blank", "none", l, <<>>) : l \in 0..1}

PyTexts == {Text("py", a, l, <<>>) : a \in ASTs \cup {"bad"}, l \in 0..MaxLay}

\* the source of a notebook cell ("".join(cell["source"]))
CellTexts == {Text("py", a, 0, <<>>) : a \in ASTs}

CellSeqs == UNION {[1..n -> CellTexts] : n \in 0..MaxCells}

\* a notebook document: its cells, and whether it ends with a newline
NbTexts == {Text("nb", "none", l, c) : l \in 0..1, c \in CellSeqs}

SrcTexts == BlankTexts \cup PyTexts \cup NbTexts

\* the masked source of a cell (mask_cell's result)
MaskedTexts == {t \in PyTexts : t.lay = 0}

\* what the line-rendering collaborator can produce
OutTexts == BlankTexts \cup PyTexts

InvalidInput == Text("InvalidInput", "none", 0, <<>>)
Unknown == Text("unknown", "none", 0, <<>>)

---------------------------------------------------------------------------
(* Each specification runs one component and keeps the others idle *)

OrchIdle ==
    /\ entry = "none"
    /\ src = NoText
    /\ fast = FALSE
    /\ is_ipynb = FALSE
    /\ write_back = "NO"
    /\ pc = "idle"
    /\ dst = NoText
    /\ exc = "none"
    /\ result = NoText
    /\ rendered = <<>>
    /\ log = <<>>
    /\ disk = NoText
    /\ stdout = <<>>
    /\ ret = "none"
    /\ cellidx = 0
    /\ nbcells = <<>>
    /\ modified = FALSE
    /\ chk = <<NoText, NoText>>
    /\ report = <<>>

QuoteIdle ==
    /\ qin = ""
    /\ qout = ""
    /\ qout2 = ""
    /\ qpc = "idle"

NoComment == [type |-> "none", value |-> "", newlines |-> 0, consumed |-> 0]

FmtIdle ==
    /\ source = ""
    /\ tree = <<>>
    /\ fpc = "idle"
    /\ leaf_index = 0
    /\ comments_left = <<>>
    /\ comment = NoComment
    /\ previous_consumed = 0
    /\ container = 0
    /\ ignored_nodes = <<>>
    /\ frozen = <<>>

TextIdle ==
    /\ tfn = "none"
    /\ targ = ""
    /\ targ2 = ""
    /\ tout = ""
    /\ tpc = "idle"

SchedIdle ==
    /\ check = FALSE
    /\ diff = FALSE
    /\ color = FALSE
    /\ swrite_back = "NO"
    /\ persisted = {}
    /\ spc = "idle"
    /\ pending = {}
    /\ status = <<>>
    /\ wpc = <<>>
    /\ lock = -1
    /\ out = <<>>
    /\ files = <<>>
    /\ sreport = <<>>
    /\ cancelled = <<>>
    /\ sources_to_cache = <<>>
    /\ cache = {}
    /\ done_tasks = {}

---------------------------------------------------------------------------
(* The orchestrator: src/black/__init__.py *)

\* a check that forgets to strip: only the empty string counts
IsBlankUnstripped(t) == t = EmptyText

\* not src_contents.strip()
IsBlank(t) == t.kind = "blank"

\* parse_ast followed by stringify_ast: the canonical serialization of the
\* structural content, "bad" when the text does not parse
StringifyAst(t) ==
    IF t.kind = "blank" THEN "empty"
    ELSE IF t.kind = "py" THEN t.ast
    ELSE "bad"

\* format_stdin_to_stdout: "Make sure there's a newline after the content"
EnsureNewline(t) ==
    IF t # EmptyText /\ t.lay = 0 THEN [t EXCEPT !.lay = 1] ELSE t

WriteBacks == {"NO", "YES", "DIFF", "CHECK", "COLOR_DIFF"}

Entries == {"format_file_in_place", "format_stdin_to_stdout"}

\* format_str is a pure function of the text (the mode is fixed during a
\* call): the result for a text not rendered before is any text the
\* line-rendering collaborator may produce, or the parser's syntax fault;
\* a text rendered before gives the same result again.
FormatStrResults(t) ==
    IF rendered[t] # Unknown THEN {rendered[t]}
    ELSE OutTexts \cup {InvalidInput}

\* a format_str that renders the lines before it isolates the regions
format_str_calls_render_first(r) ==
    IF r = InvalidInput THEN <<"format_str", "lib2to3_parse">>
    ELSE <<"format_str", "lib2to3_parse", "LineGenerator",
           "normalize_fmt_off">>

\* the calls one run of format_str makes, in program order, when its
\* outcome is r: lib2to3_parse raises InvalidInput for a text that does
\* not parse; otherwise normalize_fmt_off runs to its end and then the
\* loop over lines.visit(src_node) renders the lines
format_str_calls(r) ==
    IF r = InvalidInput THEN <<"format_str", "lib2to3_parse">>
    ELSE <<"format_str", "lib2to3_parse", "normalize_fmt_off",
           "LineGenerator">>

FormatStr(t, r) ==
    /\ r \in FormatStrResults(t)
    /\ rendered' = [rendered EXCEPT ![t] = r]

Raise(e) ==
    /\ exc' = e
    /\ pc' = "caller"

\* format_file_contents, up to the call of the formatter
FormatFileContents ==
    /\ pc = "format_file_contents"
    /\ IF IsBlank(src)
       THEN /\ Raise("NothingChanged")
            /\ UNCHANGED <<dst, rendered, log>>
       ELSE IF is_ipynb
       THEN /\ pc' = "format_ipynb_string"
            /\ UNCHANGED <<dst, exc, rendered, log>>
       ELSE \E r \in FormatStrResults(src) :
              /\ FormatStr(src, r)
              /\ log' = log \o format_str_calls(r)
              /\ IF r = InvalidInput
                 THEN Raise("InvalidInput") /\ UNCHANGED dst
                 ELSE /\ dst' = r
                      /\ pc' = "compare"
                      /\ UNCHANGED exc
    /\ UNCHANGED <<params, notOrch, report, result, disk,
                   stdout, ret, cellidx, nbcells, modified, chk>>

\* the checks are left out altogether
ChecksNever == FALSE

\* format_file_contents: whether check_stability_and_equivalence is called
\* on the whole text ("Jupyter notebooks will already have been checked")
ChecksWanted == ~fast /\ ~is_ipynb

\* format_file_contents, after the formatter returned
FormatFileContentsCompare ==
    /\ pc = "compare"
    /\ IF src = dst
       THEN Raise("NothingChanged") /\ UNCHANGED <<result, chk>>
       ELSE IF ChecksWanted
       THEN /\ pc' = "assert_equivalent"
            /\ chk' = <<src, dst>>
            /\ UNCHANGED <<exc, result>>
       ELSE /\ result' = dst
            /\ pc' = "caller"
            /\ UNCHANGED <<exc, chk>>
    /\ UNCHANGED <<params, notOrch, report, dst, rendered,
                   log, disk, stdout, ret, cellidx, nbcells, modified>>

\* a check that only makes sure both texts parse
EquivalentParseOnly(a, b) ==
    /\ StringifyAst(a) # "bad"
    /\ StringifyAst(b) # "bad"

\* whether assert_equivalent(a, b) passes
Equivalent(a, b) ==
    /\ StringifyAst(a) # "bad"
    /\ StringifyAst(b) # "bad"
    /\ StringifyAst(a) = StringifyAst(b)

\* check_stability_and_equivalence, first half: assert_equivalent
AssertEquivalent ==
    /\ pc = "assert_equivalent"
    /\ log' = Append(log, "assert_equivalent")
    /\ IF Equivalent(chk[1], chk[2])
       THEN pc' = "assert_stable" /\ UNCHANGED exc
       ELSE Raise("AssertionError")
    /\ UNCHANGED <<params, notOrch, report, dst, result,
                   rendered, disk, stdout, ret, cellidx, nbcells, modified,
                   chk>>

\* a check that accepts every second pass
StableAlways(b, newdst) == TRUE

\* whether assert_stable passes when the second pass gave newdst
Stable(b, newdst) == b = newdst

\* check_stability_and_equivalence, second half: assert_stable
AssertStable ==
    /\ pc = "assert_stable"
    /\ \E r \in FormatStrResults(chk[2]) :
         /\ FormatStr(chk[2], r)
         /\ log' = log \o <<"assert_stable">> \o format_str_calls(r)
         /\ IF r = InvalidInput
            THEN Raise("InvalidInput")
            ELSE IF ~Stable(chk[2], r)
            THEN Raise("AssertionError")
            ELSE /\ pc' = IF is_ipynb THEN "format_cell_finish"
                          ELSE "return"
                 /\ UNCHANGED exc
    /\ UNCHANGED <<params, notOrch, report, dst, result, disk,
                   stdout, ret, cellidx, nbcells, modified, chk>>

\* format_file_contents: return dst_contents
FormatFileContentsReturn ==
    /\ pc = "return"
    /\ result' = dst
    /\ pc' = "caller"
    /\ UNCHANGED <<params, notOrch, report, dst, exc,
                   rendered, log, disk, stdout, ret, cellidx, nbcells,
                   modified, chk>>


\* format_ipynb_string, up to the loop over the cells
FormatIpynbString ==
    /\ pc = "format_ipynb_string"
    /\ IF src.kind # "nb"
       THEN \* json.loads fails
            Raise("JSONDecodeError") /\ UNCHANGED <<nbcells, cellidx, modified>>
       ELSE \E python \in BOOLEAN :
              IF ~python
              THEN \* validate_metadata: the notebook is marked as non-Python
                   /\ Raise("NothingChanged")
                   /\ UNCHANGED <<nbcells, cellidx, modified>>
              ELSE /\ nbcells' = src.cells
                   /\ cellidx' = 1
                   /\ modified' = FALSE
                   /\ pc' = "cells"
                   /\ UNCHANGED exc
    /\ UNCHANGED <<params, notOrch, report, dst, result,
                   rendered, log, disk, stdout, ret, chk>>

\* format_ipynb_string: one round of the loop over the cells, which calls
\* format_cell (up to its call of check_stability_and_equivalence) on a
\* code cell
FormatCell ==
    /\ pc = "cells"
    /\ cellidx <= Len(nbcells)
    /\ \E code \in BOOLEAN, valid \in BOOLEAN, msrc \in MaskedTexts :
         IF ~code \/ ~valid
         THEN \* not a code cell, or validate_cell or mask_cell raised
              \* NothingChanged, which the loop passes over
              /\ cellidx' = cellidx + 1
              /\ UNCHANGED <<pc, exc, rendered, log, chk>>
         ELSE \E r \in FormatStrResults(msrc) :
                /\ FormatStr(msrc, r)
                /\ log' = log \o format_str_calls(r)
                /\ UNCHANGED cellidx
                /\ IF r = InvalidInput
                   THEN Raise("InvalidInput") /\ UNCHANGED chk
                   ELSE /\ chk' = <<msrc, r>>
                        /\ pc' = IF ~fast THEN "assert_equivalent"
                                 ELSE "format_cell_finish"
                        /\ UNCHANGED exc
    /\ UNCHANGED <<params, notOrch, report, dst, result, disk,
                   stdout, ret, nbcells, modified>>

\* format_cell after the checks: unmask, put the semicolon back, strip the
\* trailing newlines, compare with the cell's source.  The cell's masked
\* texts go out of scope here, and with them what is remembered of their
\* rendering: each cell is rendered on its own.
FormatCellFinish ==
    /\ pc = "format_cell_finish"
    /\ \E d \in CellTexts :
         IF d = nbcells[cellidx]
         THEN \* NothingChanged, which the loop passes over
              UNCHANGED <<nbcells, modified>>
         ELSE /\ nbcells' = [nbcells EXCEPT ![cellidx] = d]
              /\ modified' = TRUE
    /\ cellidx' = cellidx + 1
    /\ pc' = "cells"
    /\ chk' = <<NoText, NoText>>
    /\ rendered' = [t \in DOMAIN rendered |-> Unknown]
    /\ UNCHANGED <<params, notOrch, report, dst, exc, result,
                   log, disk, stdout, ret>>

\* format_ipynb_string after the loop
FormatIpynbStringEnd ==
    /\ pc = "cells"
    /\ cellidx > Len(nbcells)
    /\ IF modified
       THEN /\ dst' = Text("nb", "none", src.lay, nbcells)
            /\ pc' = "compare"
            /\ UNCHANGED exc
       ELSE Raise("NothingChanged") /\ UNCHANGED dst
    /\ UNCHANGED <<params, notOrch, report, result, rendered,
                   log, disk, stdout, ret, cellidx, nbcells, modified, chk>>

Diff(a, b) == [out |-> "diff", a |-> a, b |-> b]
Written(t) == [out |-> "text", a |-> NoText, b |-> t]

\* format_file_in_place, after its call of format_file_contents
FormatFileInPlace ==
    /\ pc = "caller"
    /\ entry = "format_file_in_place"
    /\ pc' = "done"
    /\ IF exc = "NothingChanged"
       THEN /\ ret' = "False"
            /\ exc' = "none"
            /\ UNCHANGED <<disk, stdout>>
       ELSE IF exc = "JSONDecodeError"
       THEN /\ exc' = "ValueError"
            /\ UNCHANGED <<ret, disk, stdout>>
       ELSE IF exc # "none"
       THEN UNCHANGED <<exc, ret, disk, stdout>>
       ELSE /\ ret' = "True"
            /\ disk' = IF write_back = "YES" THEN result ELSE disk
            /\ stdout' = IF write_back \in {"DIFF", "COLOR_DIFF"}
                         THEN Append(stdout, Diff(src, result))
                         ELSE stdout
            /\ UNCHANGED exc
    /\ UNCHANGED <<params, notOrch, report, dst, result,
                   rendered, log, cellidx, nbcells, modified, chk>>

\* the finally block sees the text computed before the check failed
StdinDstUnverified == IF exc = "none" THEN result ELSE dst

\* format_stdin_to_stdout: the value of its variable dst in the finally
\* block (dst = src; then dst = format_file_contents(...) in the try)
StdinDst == IF exc = "none" THEN result ELSE src

\* format_stdin_to_stdout, after its call of format_file_contents: the
\* except clause and the finally block
FormatStdinToStdout ==
    /\ pc = "caller"
    /\ entry = "format_stdin_to_stdout"
    /\ pc' = "done"
    /\ stdout' = IF write_back = "YES"
                 THEN Append(stdout, Written(EnsureNewline(StdinDst)))
                 ELSE IF write_back \in {"DIFF", "COLOR_DIFF"}
                 THEN Append(stdout, Diff(src, StdinDst))
                 ELSE stdout
    /\ IF exc = "none"
       THEN ret' = "True" /\ UNCHANGED exc
       ELSE IF exc = "NothingChanged"
       THEN ret' = "False" /\ exc' = "none"
       ELSE UNCHANGED <<ret, exc>>
    /\ UNCHANGED <<params, notOrch, report, dst, result,
                   rendered, log, disk, cellidx, nbcells, modified, chk>>

\* a caller that takes every run for a success
OutcomeAlwaysDone(e) == "done"

\* reformat_one, reformat_code and the loop of schedule_formatting: an
\* exception of the call is recorded with report.failed, a return value
\* with report.done
Outcome(e) == IF e # "none" THEN "failed" ELSE "done"

\* report.done(src, changed) and report.failed(src, str(exc)), with the
\* function that made the call and whether it has the source recorded in
\* the cache
Done(by, changed, cached) ==
    [call |-> "done", by |-> by, changed |-> changed, message |-> "none",
     cache |-> cached]
Failed(by, e) ==
    [call |-> "failed", by |-> by, changed |-> "none", message |-> e,
     cache |-> FALSE]

\* Changed.YES if the call returned True else Changed.NO
Changed == IF ret = "True" THEN "YES" ELSE "NO"

\* "If the file was written back or was successfully checked as
\* well-formatted, store this information in the cache."
ToCache(changed) ==
    \/ write_back = "YES" /\ changed # "CACHED"
    \/ write_back = "CHECK" /\ changed = "NO"

Reported(by, cached) ==
    /\ pc' = "reported"
    /\ exc' = "none"
    /\ report' = Append(report,
                        IF Outcome(exc) = "failed" THEN Failed(by, exc)
                        ELSE Done(by, Changed, cached))
    /\ UNCHANGED <<params, notOrch, dst, result, rendered, log, disk, stdout,
                   ret, cellidx, nbcells, modified, chk>>

\* reformat_one when the cache holds the file as it is: the formatter is
\* not called
ReformatOneCached ==
    /\ pc = "format_file_contents"
    /\ entry = "format_file_in_place"
    /\ write_back \notin {"DIFF", "COLOR_DIFF"}
    /\ pc' = "reported"
    /\ report' = Append(report, Done("reformat_one", "CACHED", FALSE))
    /\ UNCHANGED <<params, notOrch, dst, exc, result, rendered, log, disk,
                   stdout, ret, cellidx, nbcells, modified, chk>>

\* reformat_one, after its call of format_stdin_to_stdout or of
\* format_file_in_place
ReformatOne ==
    /\ pc = "done"
    /\ Reported("reformat_one",
                entry = "format_file_in_place" /\ ToCache(Changed))

\* reformat_code, after its call of format_stdin_to_stdout
ReformatCode ==
    /\ pc = "done"
    /\ entry = "format_stdin_to_stdout"
    /\ Reported("reformat_code", FALSE)

\* schedule_formatting, for a task that ran format_file_in_place to its end
ScheduleFormattingTaskDone ==
    /\ pc = "done"
    /\ entry = "format_file_in_place"
    /\ Reported("schedule_formatting", ToCache(Changed))

---------------------------------------------------------------------------

Init ==
    /\ entry \in Entries
    /\ src \in SrcTexts
    /\ fast \in BOOLEAN
    /\ is_ipynb \in BOOLEAN
    /\ src.kind = "nb" => is_ipynb
    /\ write_back \in WriteBacks
    /\ pc = "format_file_contents"
    /\ dst = NoText
    /\ exc = "none"
    /\ result = NoText
    /\ rendered = [t \in SrcTexts \cup OutTexts |-> Unknown]
    /\ log = <<>>
    /\ disk = IF entry = "format_file_in_place" THEN src ELSE NoText
    /\ stdout = <<>>
    /\ ret = "none"
    /\ cellidx = 0
    /\ nbcells = <<>>
    /\ modified = FALSE
    /\ chk = <<NoText, NoText>>
    /\ report = <<>>
    /\ QuoteIdle
    /\ FmtIdle
    /\ TextIdle
    /\ SchedIdle

Next ==
    \/ FormatFileContents
    \/ FormatFileContentsCompare
    \/ AssertEquivalent
    \/ AssertStable
    \/ FormatFileContentsReturn
    \/ FormatIpynbString
    \/ FormatCell
    \/ FormatCellFinish
    \/ FormatIpynbStringEnd
    \/ FormatFileInPlace
    \/ FormatStdinToStdout
    \/ ReformatOneCached
    \/ ReformatOne
    \/ ReformatCode
    \/ ScheduleFormattingTaskDone

Spec == Init /\ [][Next]_vars

---------------------------------------------------------------------------
(* Claims about the orchestrator, checked under Spec *)

\* format_file_contents has ended: it returned or it raised
Ended == pc \in {"caller", "done"}
Returned == result # NoText
Count(seq, x) == Cardinality({i \in DOMAIN seq : seq[i] = x})

\* C1: when format_file_contents(src, fast=False, mode) with mode.is_ipynb
\* false returns a text, that text parses and its structural serialization
\* is that of src; when the formatted text differs from src and does not
\* parse or serializes differently, the call ends with AssertionError and
\* returns nothing.
C1_EquivalentOrAssertionError ==
    (~fast /\ ~is_ipynb) =>
        /\ Returned =>
             /\ StringifyAst(result) # "bad"
             /\ StringifyAst(result) = StringifyAst(src)
        /\ (Ended /\ dst # NoText /\ dst # src
              /\ (StringifyAst(dst) = "bad"
                    \/ StringifyAst(dst) # StringifyAst(src))) =>
             /\ exc = "AssertionError"
             /\ ~Returned

C1_Witness ==
    /\ ~fast /\ ~is_ipynb
    /\ pc = "done"
    /\ Returned /\ result = dst /\ result # src
    /\ StringifyAst(result) = StringifyAst(src)
    /\ log = format_str_calls(result) \o <<"assert_equivalent", "assert_stable">>
               \o format_str_calls(result)

C3_AlwaysChecked ==
    Returned => /\ Count(log, "assert_equivalent") > 0
                /\ chk = <<src, result>>

\* the cells format_ipynb_string has rewritten so far
ChangedCells == {i \in DOMAIN nbcells : nbcells[i] # src.cells[i]}

\* C3 as amended: with fast false, a changed output is returned only after
\* assert_equivalent has run and passed, on the whole text when
\* mode.is_ipynb is false and once for every rewritten cell when it is
\* true; with fast true the check never runs.
C3_CheckedUnlessFast ==
    /\ (~fast /\ ~is_ipynb /\ Returned) =>
          /\ Count(log, "assert_equivalent") = 1
          /\ chk = <<src, result>>
          /\ Equivalent(src, result)
    /\ (~fast /\ is_ipynb /\ src.kind = "nb") =>
          Count(log, "assert_equivalent") >= Cardinality(ChangedCells)
    /\ fast => Count(log, "assert_equivalent") = 0

C3_Witness ==
    /\ ~fast /\ is_ipynb
    /\ pc = "done"
    /\ Returned
    /\ Cardinality(ChangedCells) = 2
    /\ Count(log, "assert_equivalent") = 2

\* C4 as stated: after a failed equivalence or stability check
\* format_file_in_place has written neither the file nor a diff, and
\* format_stdin_to_stdout with write_back YES has written exactly the
\* original source text.
C4_OriginalSourceWritten ==
    (pc = "done" /\ exc = "AssertionError") =>
        /\ entry = "format_file_in_place" => disk = src /\ stdout = <<>>
        /\ (entry = "format_stdin_to_stdout" /\ write_back = "YES") =>
              stdout = <<Written(src)>>

\* C4 as amended: after a failed equivalence or stability check nothing
\* derived from the rewritten text is emitted: format_file_in_place has
\* written neither the file nor a diff, and format_stdin_to_stdout has
\* written, with write_back YES, the original source text with a newline
\* appended when it did not end with one, with DIFF or COLOR_DIFF the diff
\* of the source against itself, and nothing otherwise.
C4_UnverifiedNeverEmitted ==
    (pc = "done" /\ exc = "AssertionError") =>
        /\ ~Returned
        /\ entry = "format_file_in_place" => disk = src /\ stdout = <<>>
        /\ entry = "format_stdin_to_stdout" =>
              stdout = IF write_back = "YES"
                       THEN <<Written(EnsureNewline(src))>>
                       ELSE IF write_back \in {"DIFF", "COLOR_DIFF"}
                       THEN <<Diff(src, src)>>
                       ELSE <<>>

C4_Witness ==
    /\ pc = "done" /\ exc = "AssertionError"
    /\ entry = "format_stdin_to_stdout" /\ write_back = "YES"
    /\ dst # NoText /\ dst # src /\ dst # EnsureNewline(src)
    /\ stdout = <<Written(EnsureNewline(src))>>

\* C8: format_file_contents raises NothingChanged and returns nothing for
\* a whitespace-only input, before any formatting is attempted, and when
\* the formatted output equals the input; a text it returns differs from
\* its input.
C8_NothingChanged ==
    /\ src \in BlankTexts =>
          /\ log = <<>> /\ dst = NoText /\ ~Returned
          /\ pc = "caller" => exc = "NothingChanged"
    /\ (pc = "caller" /\ dst # NoText /\ dst = src) =>
          exc = "NothingChanged" /\ ~Returned
    /\ Returned => result # src

C8_Witness ==
    /\ pc = "caller"
    /\ src \notin BlankTexts
    /\ dst = src
    /\ exc = "NothingChanged"
    /\ ~Returned

---------------------------------------------------------------------------
(* Text: Python's str operations on TLA+ strings (1-based positions) *)

Ch(s, i) == SubSeq(s, i, i)

\* s[a:b] for a, b >= 0: a bound past the end is the end
Slice(s, a, b) ==
    LET e == IF b > Len(s) THEN Len(s) ELSE b
    IN  IF a >= e THEN "" ELSE SubSeq(s, a + 1, e)

\* s[i-1:].startswith(q)
StartsWithAt(s, i, q) ==
    /\ i >= 1
    /\ i + Len(q) - 1 <= Len(s)
    /\ SubSeq(s, i, i + Len(q) - 1) = q

EndsWith(s, q) == Len(q) <= Len(s) /\ StartsWithAt(s, Len(s) - Len(q) + 1, q)

\* c in chars, for a one-character string c
InChars(c, chars) == \E k \in 1..Len(chars) : Ch(chars, k) = c

\* s.count(c) for a one-character string c
CountChar(s, c) == Cardinality({i \in 1..Len(s) : Ch(s, i) = c})

\* s.find(q) + 1: the first position where q occurs, 0 when there is none
Find(s, q) ==
    LET hits == {i \in 1..Len(s) : StartsWithAt(s, i, q)}
    IN  IF hits = {} THEN 0 ELSE CHOOSE i \in hits : \A j \in hits : i <= j

\* the number of leading characters of s that are in chars
LeadingIn(s, chars) ==
    LET stops == {i \in 1..Len(s) : ~InChars(Ch(s, i), chars)}
    IN  IF stops = {} THEN Len(s)
        ELSE (CHOOSE i \in stops : \A j \in stops : i <= j) - 1

\* s.lstrip(chars)
LStrip(s, chars) == Slice(s, LeadingIn(s, chars), Len(s))

Lower(c) ==
    CASE c = "F" -> "f" [] c = "R" -> "r" [] c = "B" -> "b" [] c = "U" -> "u"
      [] OTHER -> c

\* c in s.casefold(), for a lower-case letter c
InCasefold(c, s) == \E k \in 1..Len(s) : Lower(Ch(s, k)) = c

\* the length of the run of backslashes that starts at position j
BackslashRun(s, j) ==
    LET stops == {k \in j..Len(s) : Ch(s, k) # "\\"}
    IN  IF j > Len(s) THEN 0
        ELSE IF stops = {} THEN Len(s) - j + 1
        ELSE (CHOOSE k \in stops : \A l \in stops : k <= l) - j

RECURSIVE Backslashes(_)
Backslashes(n) == IF n <= 0 THEN "" ELSE "\\" \o Backslashes(n - 1)

---------------------------------------------------------------------------
(* The string literal normalizer: src/black/strings.py *)

STRING_PREFIX_CHARS == "furbFURB"

\* One attempt of the patterns  ([^\\]|^)\\((?:\\\\)*)Q  (escaped) and
\* (([^\\]|^)(\\\\)*)Q  (unescaped) with the first group taking g characters
\* at position i (g = 1: a character that is no backslash, g = 0: the start
\* of the string).  After the group comes a run of backslashes, odd for the
\* escaped pattern and even for the unescaped one, then the quote Q.
BranchMatches(escaped, Q, s, i, g) ==
    LET j == i + g
        run == BackslashRun(s, j)
    IN  /\ IF g = 1 THEN i <= Len(s) /\ Ch(s, i) # "\\" ELSE i = 1
        /\ run % 2 = (IF escaped THEN 1 ELSE 0)
        /\ StartsWithAt(s, j + run, Q)

\* the width of the first group of the match at i: the alternation tries the
\* character first and the anchor second; -1 when neither matches
MatchGroup(escaped, Q, s, i) ==
    IF BranchMatches(escaped, Q, s, i, 1) THEN 1
    ELSE IF BranchMatches(escaped, Q, s, i, 0) THEN 0
    ELSE -1

\* regex.search(s) is not None
Search(escaped, Q, s) ==
    \E i \in 1..(Len(s) + 1) : MatchGroup(escaped, Q, s, i) # -1

\* regex.sub(replacement, s), from position i on: matches are taken leftmost
\* first and do not overlap.  The escaped patterns are replaced by \1\2Q (one
\* backslash dropped), the unescaped one by \1\\Q (one backslash added).
RECURSIVE SubFrom(_, _, _, _)
SubFrom(escaped, Q, s, i) ==
    IF i > Len(s) THEN ""
    ELSE LET g == MatchGroup(escaped, Q, s, i)
             j == i + g
             run == BackslashRun(s, j)
         IN  IF g = -1 THEN Ch(s, i) \o SubFrom(escaped, Q, s, i + 1)
             ELSE Slice(s, i - 1, j - 1)
                  \o Backslashes(IF escaped THEN run - 1 ELSE run + 1)
                  \o Q
                  \o SubFrom(escaped, Q, s, j + run + Len(Q))

Sub(escaped, Q, s) == SubFrom(escaped, Q, s, 1)

\* a single substitution pass, which misses overlapping matches
sub_once(escaped, Q, original) == Sub(escaped, Q, original)

sub_twice(escaped, Q, original) == Sub(escaped, Q, Sub(escaped, Q, original))

\* The pattern of the interpolated expressions,
\*   (?:(?<!\{)|^)\{([^{].*?)\}(?:(?!\})|$)
\* FieldEnd is the position of the closing brace of the match that opens at
\* p, 0 when there is none: the lazy .*? stops at the first brace that is not
\* followed by another one, and never crosses a newline.
FieldOpens(s, p) ==
    /\ p + 1 <= Len(s)
    /\ Ch(s, p) = "{"
    /\ (p = 1 \/ Ch(s, p - 1) # "{")
    /\ Ch(s, p + 1) # "{"
    /\ Ch(s, p + 1) # "\n"

FieldEnd(s, p) ==
    LET ends == {e \in (p + 2)..Len(s) :
                    /\ Ch(s, e) = "}"
                    /\ (e = Len(s) \/ Ch(s, e + 1) # "}")
                    /\ \A k \in (p + 2)..(e - 1) : Ch(s, k) # "\n"}
    IN  IF ~FieldOpens(s, p) \/ ends = {} THEN 0
        ELSE CHOOSE e \in ends : \A f \in ends : e <= f

\* re.findall: some match, scanning from position p, holds a backslash
RECURSIVE BackslashInFields(_, _)
BackslashInFields(s, p) ==
    IF p > Len(s) THEN FALSE
    ELSE LET e == FieldEnd(s, p)
         IN  IF e = 0 THEN BackslashInFields(s, p + 1)
             ELSE \/ CountChar(Slice(s, p, e - 1), "\\") > 0
                  \/ BackslashInFields(s, e + 1)


\* a comparison that lets every rewrite through
MoreEscapesIgnored(nb, ob) == FALSE

\* lines 230-233: the comparison that refuses a rewrite with more backslashes
MoreEscapes(nb, ob) == CountChar(nb, "\\") > CountChar(ob, "\\")

\* lines 173-185: the quote of the literal, by its first characters
orig_quote(s) ==
    LET value == LStrip(s, STRING_PREFIX_CHARS)
    IN  IF Slice(value, 0, 3) = "\"\"\"" THEN "\"\"\""
        ELSE IF Slice(value, 0, 3) = "'''" THEN "'''"
        ELSE IF Slice(value, 0, 1) = "\"" THEN "\""
        ELSE "'"

new_quote(s) ==
    CASE orig_quote(s) = "'''" -> "\"\"\""
      [] orig_quote(s) = "\"" -> "'"
      [] orig_quote(s) = "'" -> "\""
      [] OTHER -> "'''"

first_quote_pos(s) == Find(s, orig_quote(s)) - 1

quote_prefix(s) == Slice(s, 0, first_quote_pos(s))

quote_body(s) ==
    Slice(s, first_quote_pos(s) + Len(orig_quote(s)), Len(s) - Len(orig_quote(s)))

is_raw(s) == InCasefold("r", quote_prefix(s))

is_fstring(s) == InCasefold("f", quote_prefix(s))

\* lines 204-209: the body without the unnecessary escapes of the new quote,
\* which the function then takes as the original
cleaned_body(s) ==
    IF is_raw(s) THEN quote_body(s)
    ELSE sub_twice(TRUE, new_quote(s), quote_body(s))

cleaned(s) ==
    IF cleaned_body(s) # quote_body(s)
    THEN quote_prefix(s) \o orig_quote(s) \o cleaned_body(s) \o orig_quote(s)
    ELSE s

\* lines 210-211: the body with the escapes the new quote needs
swapped_body(s) ==
    IF is_raw(s) THEN quote_body(s)
    ELSE sub_twice(FALSE, new_quote(s),
                   sub_twice(TRUE, orig_quote(s), cleaned_body(s)))

\* the body without the edge case of the closing double quote
new_body_no_edge(s) == swapped_body(s)

\* lines 227-229: a body that ends in a double quote, inside triple double quotes
new_body(s) ==
    LET b == swapped_body(s)
    IN  IF new_quote(s) = "\"\"\"" /\ EndsWith(b, "\"")
        THEN Slice(b, 0, Len(b) - 1) \o "\\\""
        ELSE b

\* only the raw literals are kept from the conversion
unconvertible_raw_only(s) ==
    is_raw(s) /\ Search(FALSE, new_quote(s), quote_body(s))

\* lines 195-199 and 212-225: the cases in which no conversion is tried
unconvertible(s) ==
    \/ is_raw(s) /\ Search(FALSE, new_quote(s), quote_body(s))
    \/ is_fstring(s) /\ BackslashInFields(swapped_body(s), 1)

normalize_string_quotes(s) ==
    IF orig_quote(s) = "\"\"\"" THEN s
    ELSE IF first_quote_pos(s) = -1 THEN s
    ELSE IF unconvertible(s) THEN cleaned(s)
    ELSE IF MoreEscapes(new_body(s), cleaned_body(s)) THEN cleaned(s)
    ELSE IF /\ CountChar(new_body(s), "\\") = CountChar(cleaned_body(s), "\\")
            /\ orig_quote(s) = "\""
         THEN cleaned(s)
    ELSE quote_prefix(s) \o new_quote(s) \o new_body(s) \o new_quote(s)

\* The literals the tokenizer produces: after the opening quote, a backslash
\* takes the next character with it, and the first quote that is not taken
\* closes the literal.  FirstClose is the position of that quote in t, 0 when
\* there is none.
RECURSIVE FirstClose(_, _, _)
FirstClose(t, Q, i) ==
    IF i > Len(t) THEN 0
    ELSE IF Ch(t, i) = "\\" THEN FirstClose(t, Q, i + 2)
    ELSE IF StartsWithAt(t, i, Q) THEN i
    ELSE FirstClose(t, Q, i + 1)

ValidLiteral(Q, b) == FirstClose(b \o Q, Q, 1) = Len(b) + 1

MaxBody == 4

Prefixes == {"", "Rb", "F", "rf"}

Quotes == {"'", "\"", "'''", "\"\"\""}

\* the characters of the bodies: interpolation braces only matter to f-strings
Alphabet(p) ==
    IF InCasefold("f", p) THEN {"\\", "'", "\"", "a", "{", "}"}
    ELSE {"\\", "'", "\"", "a"}

RECURSIVE Bodies(_, _)
Bodies(p, n) ==
    IF n = 0 THEN {""}
    ELSE Bodies(p, n - 1)
         \cup {b \o c : b \in Bodies(p, n - 1), c \in Alphabet(p)}

Literals ==
    UNION {{p \o Q \o b \o Q : b \in {x \in Bodies(p, MaxBody) : ValidLiteral(Q, x)}} :
           p \in Prefixes, Q \in Quotes}

NormalizeStringQuotes ==
    /\ qpc = "start"
    /\ qout' = normalize_string_quotes(qin)
    /\ qpc' = "once"
    /\ UNCHANGED <<qin, qout2>>
    /\ UNCHANGED notQuotes

NormalizeStringQuotesAgain ==
    /\ qpc = "once"
    /\ qout2' = normalize_string_quotes(qout)
    /\ qpc' = "twice"
    /\ UNCHANGED <<qin, qout>>
    /\ UNCHANGED notQuotes

InitQuotes ==
    /\ OrchIdle
    /\ FmtIdle
    /\ TextIdle
    /\ SchedIdle
    /\ qin \in Literals
    /\ qout = ""
    /\ qout2 = ""
    /\ qpc = "start"

NextQuotes == NormalizeStringQuotes \/ NormalizeStringQuotesAgain

SpecQuotes == InitQuotes /\ [][NextQuotes]_vars


---------------------------------------------------------------------------
(* Claims about the string literal normalizer *)

Escapes(b) == CountChar(b, "\\")

SingleQuoted(s) == orig_quote(s) \in {"'", "'''"}

DoubleQuoted(s) == orig_quote(s) \in {"\"", "\"\"\""}

\* C9 as stated: a single-quoted or triple-single-quoted literal is rewritten
\* to double quotes exactly when the rewritten body has no more backslashes
\* than the body of the input; a double-quoted literal is rewritten to single
\* quotes only when that lowers the number of backslashes; the returned body
\* never has more backslashes than the body of the input.
C9_RewrittenExactlyWhenNoMore ==
    qpc = "once" =>
        /\ SingleQuoted(qin) =>
              (DoubleQuoted(qout) <=>
                  Escapes(new_body(qin)) <= Escapes(quote_body(qin)))
        /\ (orig_quote(qin) = "\"" /\ SingleQuoted(qout)) =>
              Escapes(quote_body(qout)) < Escapes(quote_body(qin))
        /\ Escapes(quote_body(qout)) <= Escapes(quote_body(qin))

\* C9: a single-quoted or triple-single-quoted literal is rewritten to double
\* quotes exactly when it is neither a raw literal with an unescaped double
\* quote in its body nor an f-string whose rewritten body has a backslash in
\* an interpolated expression, and the rewritten body has no more backslashes
\* than the body has once its unnecessary escapes of the double quote are
\* removed; the rewritten literal is the prefix, the rewritten body and the
\* double quotes, and a literal that is not rewritten keeps its quotes and
\* loses only those unnecessary escapes.  A double-quoted literal is
\* rewritten to single quotes only when that lowers the number of
\* backslashes, and the returned body never has more backslashes than the
\* body of the input.
C9_QuotePreference ==
    qpc = "once" =>
        /\ SingleQuoted(qin) =>
              /\ DoubleQuoted(qout) <=>
                    /\ ~unconvertible(qin)
                    /\ Escapes(new_body(qin)) <= Escapes(cleaned_body(qin))
              /\ DoubleQuoted(qout) =>
                    /\ quote_prefix(qout) = quote_prefix(qin)
                    /\ quote_body(qout) = new_body(qin)
              /\ SingleQuoted(qout) =>
                    /\ orig_quote(qout) = orig_quote(qin)
                    /\ quote_body(qout) = cleaned_body(qin)
        /\ (orig_quote(qin) = "\"" /\ SingleQuoted(qout)) =>
              Escapes(quote_body(qout)) < Escapes(quote_body(qin))
        /\ Escapes(quote_body(qout)) <= Escapes(quote_body(qin))

\* a single-quoted literal with an escaped quote, rewritten to double quotes
\* with fewer backslashes
C9_Witness ==
    /\ qpc = "once"
    /\ orig_quote(qin) = "'"
    /\ orig_quote(qout) = "\""
    /\ Escapes(quote_body(qout)) < Escapes(quote_body(qin))

\* C10: normalize_string_quotes is idempotent, a second application to its
\* own result returns that result
C10_Idempotent == qpc = "twice" => qout2 = qout

\* a literal that the first application rewrote, with its escapes changed,
\* and the second left alone
C10_Witness ==
    /\ qpc = "twice"
    /\ qout # qin
    /\ quote_body(qout) # quote_body(qin)
    /\ qout2 = qout

---------------------------------------------------------------------------
(* More of Python's str, for the comment extractor *)

StartsWith(s, q) == StartsWithAt(s, 1, q)

\* q in s
Contains(s, q) == Find(s, q) # 0

NON_BREAKING_SPACE == " "

\* the characters str.strip() removes, among those the inputs can hold
SPACE_CHARS == " \t\n\r" \o NON_BREAKING_SPACE

\* s.lstrip()
LStripSpace(s) == LStrip(s, SPACE_CHARS)

\* the number of trailing characters of s that are in chars
TrailingIn(s, chars) ==
    LET stops == {i \in 1..Len(s) : ~InChars(Ch(s, i), chars)}
    IN  IF stops = {} THEN Len(s)
        ELSE Len(s) - (CHOOSE i \in stops : \A j \in stops : i >= j)

\* s.rstrip()
RStripSpace(s) == Slice(s, 0, Len(s) - TrailingIn(s, SPACE_CHARS))

\* s.replace(q, ""), for a non-empty q
RECURSIVE Remove(_, _)
Remove(s, q) ==
    LET k == Find(s, q)
    IN  IF k = 0 THEN s
        ELSE Slice(s, 0, k - 1) \o Remove(Slice(s, k - 1 + Len(q), Len(s)), q)

\* "\n" * n
RECURSIVE Newlines(_)
Newlines(n) == IF n <= 0 THEN "" ELSE "\n" \o Newlines(n - 1)

\* re.split("\r?\n", s)
RECURSIVE SplitLines(_)
SplitLines(s) ==
    LET k == Find(s, "\n")
    IN  IF k = 0 THEN <<s>>
        ELSE <<IF k > 1 /\ Ch(s, k - 1) = "\r" THEN Slice(s, 0, k - 2)
               ELSE Slice(s, 0, k - 1)>>
             \o SplitLines(Slice(s, k, Len(s)))

---------------------------------------------------------------------------
(* The comment extractor: src/black/comments.py *)

FMT_OFF == {"# fmt: off", "# fmt:off", "# yapf: disable"}
FMT_SKIP == {"# fmt: skip", "# fmt:skip"}
FMT_PASS == FMT_OFF \cup FMT_SKIP
FMT_ON == {"# fmt: on", "# fmt:on", "# yapf: enable"}

\* a normalizer that trims the comment and leaves the rest as it is
make_comment_trimmed(content) ==
    LET stripped == RStripSpace(content)
    IN  IF StartsWith(stripped, "#") THEN stripped ELSE "#" \o stripped

make_comment(content) ==
    LET stripped == RStripSpace(content)
        nohash == IF StartsWith(stripped, "#") THEN Slice(stripped, 1, Len(stripped))
                  ELSE stripped
        nonbsp == IF /\ StartsWith(nohash, NON_BREAKING_SPACE)
                     /\ ~StartsWith(LStripSpace(nohash), "type:")
                  THEN " " \o Slice(nohash, 1, Len(nohash))
                  ELSE nohash
        spaced == IF nonbsp # "" /\ ~InChars(Ch(nonbsp, 1), " !:#'%")
                  THEN " " \o nonbsp
                  ELSE nonbsp
    IN  IF stripped = "" THEN "#" ELSE "#" \o spaced

\* the loop of list_comments from line index on (index counts from 1), with
\* the values consumed, nlines and ignored_lines have before that line
RECURSIVE ListCommentsFrom(_, _, _, _, _, _)
ListCommentsFrom(lines, index, consumed, nlines, ignored_lines, is_endmarker) ==
    IF index > Len(lines) THEN <<>>
    ELSE LET consumed2 == consumed + Len(lines[index]) + 1
             line == LStripSpace(lines[index])
             nlines2 == IF line = "" THEN nlines + 1 ELSE nlines
         IN  IF ~StartsWith(line, "#")
             THEN ListCommentsFrom(lines, index + 1, consumed2, nlines2,
                                   IF EndsWith(line, "\\") THEN ignored_lines + 1
                                   ELSE ignored_lines,
                                   is_endmarker)
             ELSE <<[type |-> IF index - 1 = ignored_lines /\ ~is_endmarker
                              THEN "COMMENT" ELSE "STANDALONE_COMMENT",
                     value |-> make_comment(line),
                     newlines |-> nlines2,
                     consumed |-> consumed2]>>
                  \o ListCommentsFrom(lines, index + 1, consumed2, 0,
                                      ignored_lines, is_endmarker)

\* a list_comments that takes every leaf for the end-of-input marker
list_comments_at_endmarker(prefix, is_endmarker) ==
    IF prefix = "" \/ ~Contains(prefix, "#") THEN <<>>
    ELSE ListCommentsFrom(SplitLines(prefix), 1, 0, 0, 0, TRUE)

list_comments(prefix, is_endmarker) ==
    IF prefix = "" \/ ~Contains(prefix, "#") THEN <<>>
    ELSE ListCommentsFrom(SplitLines(prefix), 1, 0, 0, 0, is_endmarker)

---------------------------------------------------------------------------
(* The parse tree (blib2to3.pytree) and its navigation (black.nodes).      *)
(* A tree is a sequence of nodes; a node names its parent and children by  *)
(* their positions in the sequence, 0 is None.  The root is node 1.        *)

Leaf(type, value, prefix, column, parent) ==
    [leaf |-> TRUE, type |-> type, value |-> value, prefix |-> prefix,
     column |-> column, children |-> <<>>, parent |-> parent]

Node(type, children, parent) ==
    [leaf |-> FALSE, type |-> type, value |-> "", prefix |-> "",
     column |-> 0, children |-> children, parent |-> parent]

Root == 1

WHITESPACE == {"DEDENT", "INDENT", "NEWLINE"}

BRACKETS == {"LPAR", "LSQB", "LBRACE", "RPAR", "RSQB", "RBRACE"}

\* the position of x in a sequence that holds it
IndexOf(seq, x) == CHOOSE i \in 1..Len(seq) : seq[i] = x

\* node.prefix: the prefix of the first leaf
RECURSIVE node_prefix(_, _)
node_prefix(t, n) ==
    IF t[n].leaf THEN t[n].prefix
    ELSE IF t[n].children = <<>> THEN ""
    ELSE node_prefix(t, t[n].children[1])

\* node.prefix = p
RECURSIVE set_prefix(_, _, _)
set_prefix(t, n, p) ==
    IF t[n].leaf THEN [t EXCEPT ![n].prefix = p]
    ELSE IF t[n].children = <<>> THEN t
    ELSE set_prefix(t, t[n].children[1], p)

\* str(node), and the concatenation of str over a list of nodes
RECURSIVE node_str(_, _)
RECURSIVE nodes_str(_, _)
node_str(t, n) ==
    IF t[n].leaf THEN t[n].prefix \o t[n].value
    ELSE nodes_str(t, t[n].children)

nodes_str(t, ns) ==
    IF ns = <<>> THEN "" ELSE node_str(t, Head(ns)) \o nodes_str(t, Tail(ns))

\* list(node.leaves()), and the same over a list of nodes
RECURSIVE leaves(_, _)
RECURSIVE leaves_of_all(_, _)
leaves(t, n) ==
    IF t[n].leaf THEN <<n>>
    ELSE leaves_of_all(t, t[n].children)

leaves_of_all(t, ns) ==
    IF ns = <<>> THEN <<>> ELSE leaves(t, Head(ns)) \o leaves_of_all(t, Tail(ns))

prev_sibling(t, n) ==
    IF t[n].parent = 0 THEN 0
    ELSE LET sibs == t[t[n].parent].children
             i == IndexOf(sibs, n)
         IN  IF i = 1 THEN 0 ELSE sibs[i - 1]

next_sibling(t, n) ==
    IF t[n].parent = 0 THEN 0
    ELSE LET sibs == t[t[n].parent].children
             i == IndexOf(sibs, n)
         IN  IF i = Len(sibs) THEN 0 ELSE sibs[i + 1]

\* node.remove(): the tree without the node under its parent
remove(t, n) ==
    IF t[n].parent = 0 THEN t
    ELSE LET p == t[n].parent
             sibs == t[p].children
             i == IndexOf(sibs, n)
         IN  [t EXCEPT ![p].children = SubSeq(sibs, 1, i - 1)
                                        \o SubSeq(sibs, i + 1, Len(sibs)),
                       ![n].parent = 0]

\* what node.remove() returns: the position the node had, -1 for None
remove_index(t, n) ==
    IF t[n].parent = 0 THEN -1
    ELSE IndexOf(t[t[n].parent].children, n) - 1

\* a loop that stops after the first node
remove_first_only(t, ns) ==
    IF ns = <<>> THEN t ELSE remove(t, Head(ns))

\* lines 181-184: for ignored in ignored_nodes: ignored.remove()
RECURSIVE remove_all(_, _)
remove_all(t, ns) ==
    IF ns = <<>> THEN t ELSE remove_all(remove(t, Head(ns)), Tail(ns))

\* parent.insert_child(i, child) for a new child, which takes the next index
insert_child(t, p, i, child) ==
    LET sibs == t[p].children
        at == IF i > Len(sibs) THEN Len(sibs) ELSE i
        id == Len(t) + 1
    IN  [Append(t, [child EXCEPT !.parent = p])
            EXCEPT ![p].children = SubSeq(sibs, 1, at) \o <<id>>
                                   \o SubSeq(sibs, at + 1, Len(sibs))]

\* black.nodes.preceding_leaf
RECURSIVE preceding_leaf(_, _)
preceding_leaf(t, n) ==
    IF n = 0 THEN 0
    ELSE LET res == prev_sibling(t, n)
         IN  IF res # 0
             THEN IF t[res].leaf THEN res
                  ELSE LET ls == leaves(t, res)
                       IN  IF ls = <<>> THEN 0 ELSE ls[Len(ls)]
             ELSE preceding_leaf(t, t[n].parent)

\* black.nodes.container_of: the loop, from the container c
RECURSIVE container_from(_, _, _)
container_from(t, c, same_prefix) ==
    LET parent == t[c].parent
    IN  IF parent = 0 THEN c
        ELSE IF node_prefix(t, t[parent].children[1]) # same_prefix THEN c
        ELSE IF t[parent].type = "file_input" THEN c
        ELSE IF /\ prev_sibling(t, parent) # 0
                /\ t[prev_sibling(t, parent)].type \in BRACKETS
             THEN c
        ELSE container_from(t, parent, same_prefix)

container_of(t, l) == container_from(t, l, t[l].prefix)

\* black.nodes.first_leaf_column: the column of the first child that is a
\* leaf, -1 for None
first_leaf_column(t, n) ==
    LET ls == {i \in 1..Len(t[n].children) : t[t[n].children[i]].leaf}
    IN  IF ls = {} THEN -1
        ELSE t[t[n].children[CHOOSE i \in ls : \A j \in ls : i <= j]].column

---------------------------------------------------------------------------
(* The format-region isolator: src/black/comments.py *)

is_fmt_on(t, c) ==
    LET cs == list_comments(node_prefix(t, c), FALSE)
        marks == {i \in 1..Len(cs) : cs[i].value \in FMT_ON \cup FMT_OFF}
    IN  /\ marks # {}
        /\ cs[CHOOSE i \in marks : \A j \in marks : i >= j].value \in FMT_ON

contains_fmt_on_at_column(t, c, column) ==
    \E i \in 1..Len(t[c].children) :
        LET child == t[c].children[i]
        IN  /\ \/ ~t[child].leaf /\ first_leaf_column(t, child) = column
               \/ t[child].leaf /\ t[child].column = column
            /\ is_fmt_on(t, child)

\* lines 229-232: the children the loop yields, which are those before the
\* first child that holds a # fmt: on at the column
children_until_fmt_on(t, c, column) ==
    LET stops == {i \in 1..Len(t[c].children) :
                     contains_fmt_on_at_column(t, t[c].children[i], column)}
    IN  IF stops = {} THEN t[c].children
        ELSE SubSeq(t[c].children, 1,
                    (CHOOSE i \in stops : \A j \in stops : i <= j) - 1)

\* lines 229-232: whether the loop over the children ends in the return
returns_in_children(t, c, column) ==
    \E i \in 1..Len(t[c].children) :
        contains_fmt_on_at_column(t, t[c].children[i], column)

\* lines 211-217: the siblings before the leaf, back to the one whose prefix
\* holds a newline or that has no previous sibling
RECURSIVE siblings_back(_, _, _)
siblings_back(t, prev, siblings) ==
    IF ~Contains(node_prefix(t, prev), "\n") /\ prev_sibling(t, prev) # 0
    THEN siblings_back(t, prev_sibling(t, prev),
                       <<prev_sibling(t, prev)>> \o siblings)
    ELSE siblings

\* the nodes the walk may yield before it is cut off
MaxYield == 8

CurLeaf == leaves(tree, Root)[leaf_index]

\* normalize_fmt_off, lines 133-135, and convert_one_fmt_off_pair, lines
\* 143-145 and 197: the next leaf of the tree, or the end of the loop over
\* the leaves, where convert_one_fmt_off_pair returns False and
\* normalize_fmt_off ends
NextLeaf ==
    /\ fpc = "leaf"
    /\ IF leaf_index > Len(leaves(tree, Root))
       THEN /\ fpc' = "done"
            /\ UNCHANGED <<comments_left, previous_consumed>>
       ELSE /\ fpc' = "comment"
            /\ comments_left' = list_comments(tree[CurLeaf].prefix, FALSE)
            /\ previous_consumed' = 0
    /\ UNCHANGED <<source, tree, leaf_index, comment, container, ignored_nodes,
                   frozen>>
    /\ UNCHANGED notFmt

\* a test that lets every marker count
DisqualifiedNever(t, l, c) == FALSE

\* lines 152-158: a trailing comment counts only when it is a standalone
\* comment in disguise
Disqualified(t, l, c) ==
    /\ c.type # "STANDALONE_COMMENT"
    /\ preceding_leaf(t, l) # 0
    /\ \/ c.value \in FMT_OFF /\ t[preceding_leaf(t, l)].type \notin WHITESPACE
       \/ c.value \in FMT_SKIP /\ t[preceding_leaf(t, l)].type \in WHITESPACE

\* convert_one_fmt_off_pair, lines 145-160: the next comment of the leaf's
\* prefix; for a marker that counts, generate_ignored_nodes starts (line 206)
NextComment ==
    /\ fpc = "comment"
    /\ IF comments_left = <<>>
       THEN /\ fpc' = "leaf"
            /\ leaf_index' = leaf_index + 1
            /\ UNCHANGED <<comments_left, comment, previous_consumed, container>>
       ELSE LET c == Head(comments_left)
            IN  /\ comments_left' = Tail(comments_left)
                /\ UNCHANGED leaf_index
                /\ IF c.value \notin FMT_PASS
                   THEN /\ previous_consumed' = c.consumed
                        /\ UNCHANGED <<fpc, comment, container>>
                   ELSE IF Disqualified(tree, CurLeaf, c)
                   THEN UNCHANGED <<fpc, comment, previous_consumed, container>>
                   ELSE /\ fpc' = "generate"
                        /\ comment' = c
                        /\ container' = container_of(tree, CurLeaf)
                        /\ UNCHANGED previous_consumed
    /\ UNCHANGED <<source, tree, ignored_nodes, frozen>>
    /\ UNCHANGED notFmt

\* generate_ignored_nodes, lines 207-222: the statement before a # fmt: skip
GenerateIgnoredNodesSkip ==
    /\ fpc = "generate"
    /\ comment.value \in FMT_SKIP
    /\ LET prev == prev_sibling(tree, CurLeaf)
       IN  IF Contains(tree[CurLeaf].prefix, comment.value) /\ prev # 0
           THEN /\ tree' = [tree EXCEPT ![CurLeaf].prefix =
                                Remove(tree[CurLeaf].prefix, comment.value)]
                /\ ignored_nodes' = siblings_back(tree', prev, <<prev>>)
           ELSE IF tree[CurLeaf].parent # 0
           THEN /\ ignored_nodes' = <<tree[CurLeaf].parent>>
                /\ UNCHANGED tree
           ELSE /\ ignored_nodes' = <<>>
                /\ UNCHANGED tree
    /\ fpc' = "convert"
    /\ UNCHANGED <<source, leaf_index, comments_left, comment,
                   previous_consumed, container, frozen>>
    /\ UNCHANGED notFmt

\* generate_ignored_nodes, lines 223-235: one turn of the while loop
GenerateIgnoredNodes ==
    /\ fpc = "generate"
    /\ comment.value \notin FMT_SKIP
    /\ Len(ignored_nodes) <= MaxYield
    /\ IF container = 0 \/ tree[container].type = "ENDMARKER"
       THEN /\ fpc' = "convert"
            /\ UNCHANGED <<container, ignored_nodes>>
       ELSE IF is_fmt_on(tree, container)
       THEN /\ fpc' = "convert"
            /\ UNCHANGED <<container, ignored_nodes>>
       ELSE IF contains_fmt_on_at_column(tree, container, tree[CurLeaf].column)
       THEN /\ ignored_nodes' = ignored_nodes \o
                   children_until_fmt_on(tree, container, tree[CurLeaf].column)
            /\ fpc' = IF returns_in_children(tree, container, tree[CurLeaf].column)
                      THEN "convert" ELSE "generate"
            /\ UNCHANGED container
       ELSE /\ ignored_nodes' = Append(ignored_nodes, container)
            /\ container' = next_sibling(tree, container)
            /\ UNCHANGED fpc
    /\ UNCHANGED <<source, tree, leaf_index, comments_left, comment,
                   previous_consumed, frozen>>
    /\ UNCHANGED notFmt

\* lines 164-179: the value of the frozen leaf, in the tree t1 in which the
\* prefix of the first node is cut
hidden_value(t1, ns, c) ==
    LET joined == nodes_str(t1, ns)
        marked == IF c.value \in FMT_OFF THEN c.value \o "\n" \o joined
                  ELSE IF c.value \in FMT_SKIP THEN joined \o "  " \o c.value
                  ELSE joined
    IN  IF EndsWith(marked, "\n") THEN Slice(marked, 0, Len(marked) - 1)
        ELSE marked

\* convert_one_fmt_off_pair, lines 160-195, and normalize_fmt_off, line 135:
\* without ignored nodes the loop over the comments goes on; otherwise the
\* nodes are replaced by one STANDALONE_COMMENT leaf and the search starts
\* again from the first leaf.  An assertion that fails leaves the tree as it
\* is by then, with the nodes removed.
ConvertOneFmtOffPair ==
    /\ fpc = "convert"
    /\ IF ignored_nodes = <<>>
       THEN /\ fpc' = "comment"
            /\ UNCHANGED <<tree, leaf_index, comments_left, frozen>>
       ELSE LET first == ignored_nodes[1]
                parent == tree[first].parent
                prefix == node_prefix(tree, first)
                t1 == IF comment.value \in FMT_OFF
                      THEN set_prefix(tree, first,
                                      Slice(prefix, comment.consumed, Len(prefix)))
                      ELSE IF comment.value \in FMT_SKIP
                      THEN set_prefix(tree, first, "")
                      ELSE tree
                hidden == hidden_value(t1, ignored_nodes, comment)
                first_idx == remove_index(t1, first)
                t2 == remove_all(t1, ignored_nodes)
                new == Leaf("STANDALONE_COMMENT", hidden,
                            Slice(prefix, 0, previous_consumed)
                                \o Newlines(comment.newlines),
                            0, parent)
            IN  IF parent = 0 \/ first_idx = -1
                THEN /\ fpc' = "AssertionError"
                     /\ tree' = t2
                     /\ UNCHANGED <<leaf_index, comments_left, frozen>>
                ELSE /\ fpc' = "leaf"
                     /\ tree' = insert_child(t2, parent, first_idx, new)
                     /\ leaf_index' = 1
                     /\ comments_left' = <<>>
                     /\ frozen' = Append(frozen,
                                         [id |-> Len(tree) + 1,
                                          marker |-> comment.value,
                                          nodes |-> ignored_nodes,
                                          tree |-> tree'])
    /\ ignored_nodes' = <<>>
    /\ container' = 0
    /\ UNCHANGED <<source, comment, previous_consumed>>
    /\ UNCHANGED notFmt

---------------------------------------------------------------------------
(* The inputs: texts and the trees the parser makes of them *)

\* # fmt: off / x   = 1 / # fmt: on / y  =2
Input_basic ==
    [text |-> "# fmt: off\nx   = 1\n# fmt: on\ny  =2\n",
     tree |-> <<
        Node("file_input", <<2, 8, 14>>, 0),
        Node("simple_stmt", <<3, 7>>, 1),
        Node("expr_stmt", <<4, 5, 6>>, 2),
        Leaf("NAME", "x", "# fmt: off\n", 0, 3),
        Leaf("EQUAL", "=", "   ", 4, 3),
        Leaf("NUMBER", "1", " ", 6, 3),
        Leaf("NEWLINE", "\n", "", 7, 2),
        Node("simple_stmt", <<9, 13>>, 1),
        Node("expr_stmt", <<10, 11, 12>>, 8),
        Leaf("NAME", "y", "# fmt: on\n", 0, 9),
        Leaf("EQUAL", "=", "  ", 3, 9),
        Leaf("NUMBER", "2", "", 4, 9),
        Leaf("NEWLINE", "\n", "", 5, 8),
        Leaf("ENDMARKER", "", "", 0, 1)
     >>]

\* a  =1 / # fmt: off / x   = 1
Input_to_eof ==
    [text |-> "a  =1\n# fmt: off\nx   = 1\n",
     tree |-> <<
        Node("file_input", <<2, 8, 14>>, 0),
        Node("simple_stmt", <<3, 7>>, 1),
        Node("expr_stmt", <<4, 5, 6>>, 2),
        Leaf("NAME", "a", "", 0, 3),
        Leaf("EQUAL", "=", "  ", 3, 3),
        Leaf("NUMBER", "1", "", 4, 3),
        Leaf("NEWLINE", "\n", "", 5, 2),
        Node("simple_stmt", <<9, 13>>, 1),
        Node("expr_stmt", <<10, 11, 12>>, 8),
        Leaf("NAME", "x", "# fmt: off\n", 0, 9),
        Leaf("EQUAL", "=", "   ", 4, 9),
        Leaf("NUMBER", "1", " ", 6, 9),
        Leaf("NEWLINE", "\n", "", 7, 8),
        Leaf("ENDMARKER", "", "", 0, 1)
     >>]

\* # fmt: off / x   = 1 / #trailing / # fmt: on / y  =2
Input_trailing ==
    [text |-> "# fmt: off\nx   = 1\n#trailing\n# fmt: on\ny  =2\n",
     tree |-> <<
        Node("file_input", <<2, 8, 14>>, 0),
        Node("simple_stmt", <<3, 7>>, 1),
        Node("expr_stmt", <<4, 5, 6>>, 2),
        Leaf("NAME", "x", "# fmt: off\n", 0, 3),
        Leaf("EQUAL", "=", "   ", 4, 3),
        Leaf("NUMBER", "1", " ", 6, 3),
        Leaf("NEWLINE", "\n", "", 7, 2),
        Node("simple_stmt", <<9, 13>>, 1),
        Node("expr_stmt", <<10, 11, 12>>, 8),
        Leaf("NAME", "y", "#trailing\n# fmt: on\n", 0, 9),
        Leaf("EQUAL", "=", "  ", 3, 9),
        Leaf("NUMBER", "2", "", 4, 9),
        Leaf("NEWLINE", "\n", "", 5, 8),
        Leaf("ENDMARKER", "", "", 0, 1)
     >>]

\* # fmt: off / @decorator / # fmt: on / def f(): pass
Input_decorator ==
    [text |-> "# fmt: off\n@decorator\n# fmt: on\ndef f(): pass\n",
     tree |-> <<
        Node("file_input", <<2, 17>>, 0),
        Node("decorated", <<3, 7>>, 1),
        Node("decorator", <<4, 5, 6>>, 2),
        Leaf("AT", "@", "# fmt: off\n", 0, 3),
        Leaf("NAME", "decorator", "", 1, 3),
        Leaf("NEWLINE", "\n", "", 10, 3),
        Node("funcdef", <<8, 9, 10, 13, 14>>, 2),
        Leaf("NAME", "def", "# fmt: on\n", 0, 7),
        Leaf("NAME", "f", " ", 4, 7),
        Node("parameters", <<11, 12>>, 7),
        Leaf("LPAR", "(", "", 5, 10),
        Leaf("RPAR", ")", "", 6, 10),
        Leaf("COLON", ":", "", 7, 7),
        Node("simple_stmt", <<15, 16>>, 7),
        Leaf("NAME", "pass", " ", 9, 14),
        Leaf("NEWLINE", "\n", "", 13, 14),
        Leaf("ENDMARKER", "", "", 0, 1)
     >>]

\* x = [ /     # fmt: off /     1, /     # fmt: on /     ]
Input_in_list ==
    [text |-> "x = [\n    # fmt: off\n    1,\n    # fmt: on\n    ]\n",
     tree |-> <<
        Node("file_input", <<2, 13>>, 0),
        Node("simple_stmt", <<3, 12>>, 1),
        Node("expr_stmt", <<4, 5, 6>>, 2),
        Leaf("NAME", "x", "", 0, 3),
        Leaf("EQUAL", "=", " ", 2, 3),
        Node("atom", <<7, 8, 11>>, 3),
        Leaf("LSQB", "[", " ", 4, 6),
        Node("listmaker", <<9, 10>>, 6),
        Leaf("NUMBER", "1", "\n    # fmt: off\n    ", 4, 8),
        Leaf("COMMA", ",", "", 5, 8),
        Leaf("RSQB", "]", "\n    # fmt: on\n    ", 4, 6),
        Leaf("NEWLINE", "\n", "", 5, 2),
        Leaf("ENDMARKER", "", "", 0, 1)
     >>]

\* x    =1  # fmt: skip / y   =2
Input_skip ==
    [text |-> "x    =1  # fmt: skip\ny   =2\n",
     tree |-> <<
        Node("file_input", <<2, 8, 14>>, 0),
        Node("simple_stmt", <<3, 7>>, 1),
        Node("expr_stmt", <<4, 5, 6>>, 2),
        Leaf("NAME", "x", "", 0, 3),
        Leaf("EQUAL", "=", "    ", 5, 3),
        Leaf("NUMBER", "1", "", 6, 3),
        Leaf("NEWLINE", "\n", "  # fmt: skip", 20, 2),
        Node("simple_stmt", <<9, 13>>, 1),
        Node("expr_stmt", <<10, 11, 12>>, 8),
        Leaf("NAME", "y", "", 0, 9),
        Leaf("EQUAL", "=", "   ", 4, 9),
        Leaf("NUMBER", "2", "", 5, 9),
        Leaf("NEWLINE", "\n", "", 6, 8),
        Leaf("ENDMARKER", "", "", 0, 1)
     >>]

\* if x:  # fmt: skip /     y   =1 / z  =2
Input_skip_if ==
    [text |-> "if x:  # fmt: skip\n    y   =1\nz  =2\n",
     tree |-> <<
        Node("file_input", <<2, 16, 22>>, 0),
        Node("if_stmt", <<3, 4, 5, 6>>, 1),
        Leaf("NAME", "if", "", 0, 2),
        Leaf("NAME", "x", " ", 3, 2),
        Leaf("COLON", ":", "", 4, 2),
        Node("suite", <<7, 8, 9, 15>>, 2),
        Leaf("NEWLINE", "\n", "  # fmt: skip", 18, 6),
        Leaf("INDENT", "", "", 0, 6),
        Node("simple_stmt", <<10, 14>>, 6),
        Node("expr_stmt", <<11, 12, 13>>, 9),
        Leaf("NAME", "y", "    ", 4, 10),
        Leaf("EQUAL", "=", "   ", 8, 10),
        Leaf("NUMBER", "1", "", 9, 10),
        Leaf("NEWLINE", "\n", "", 10, 9),
        Leaf("DEDENT", "", "", 0, 6),
        Node("simple_stmt", <<17, 21>>, 1),
        Node("expr_stmt", <<18, 19, 20>>, 16),
        Leaf("NAME", "z", "", 0, 17),
        Leaf("EQUAL", "=", "  ", 3, 17),
        Leaf("NUMBER", "2", "", 4, 17),
        Leaf("NEWLINE", "\n", "", 5, 16),
        Leaf("ENDMARKER", "", "", 0, 1)
     >>]

\* # fmt: off / # fmt: on / x  = 1
Input_off_on ==
    [text |-> "# fmt: off\n# fmt: on\nx  = 1\n",
     tree |-> <<
        Node("file_input", <<2, 8>>, 0),
        Node("simple_stmt", <<3, 7>>, 1),
        Node("expr_stmt", <<4, 5, 6>>, 2),
        Leaf("NAME", "x", "# fmt: off\n# fmt: on\n", 0, 3),
        Leaf("EQUAL", "=", "  ", 3, 3),
        Leaf("NUMBER", "1", " ", 5, 3),
        Leaf("NEWLINE", "\n", "", 6, 2),
        Leaf("ENDMARKER", "", "", 0, 1)
     >>]

\* # c / # fmt: off / x  = 1 / # fmt: on / y  = 2
Input_after_c ==
    [text |-> "# c\n# fmt: off\nx  = 1\n# fmt: on\ny  = 2\n",
     tree |-> <<
        Node("file_input", <<2, 8, 14>>, 0),
        Node("simple_stmt", <<3, 7>>, 1),
        Node("expr_stmt", <<4, 5, 6>>, 2),
        Leaf("NAME", "x", "# c\n# fmt: off\n", 0, 3),
        Leaf("EQUAL", "=", "  ", 3, 3),
        Leaf("NUMBER", "1", " ", 5, 3),
        Leaf("NEWLINE", "\n", "", 6, 2),
        Node("simple_stmt", <<9, 13>>, 1),
        Node("expr_stmt", <<10, 11, 12>>, 8),
        Leaf("NAME", "y", "# fmt: on\n", 0, 9),
        Leaf("EQUAL", "=", "  ", 3, 9),
        Leaf("NUMBER", "2", " ", 5, 9),
        Leaf("NEWLINE", "\n", "", 6, 8),
        Leaf("ENDMARKER", "", "", 0, 1)
     >>]

\* # fmt: off / x  = 1 / # fmt: on / y  = 2 / # fmt:off / z  = 3 / # fmt:on
Input_two ==
    [text |-> "# fmt: off\nx  = 1\n# fmt: on\ny  = 2\n# fmt:off\nz  = 3\n# fmt:on\n",
     tree |-> <<
        Node("file_input", <<2, 8, 14, 20>>, 0),
        Node("simple_stmt", <<3, 7>>, 1),
        Node("expr_stmt", <<4, 5, 6>>, 2),
        Leaf("NAME", "x", "# fmt: off\n", 0, 3),
        Leaf("EQUAL", "=", "  ", 3, 3),
        Leaf("NUMBER", "1", " ", 5, 3),
        Leaf("NEWLINE", "\n", "", 6, 2),
        Node("simple_stmt", <<9, 13>>, 1),
        Node("expr_stmt", <<10, 11, 12>>, 8),
        Leaf("NAME", "y", "# fmt: on\n", 0, 9),
        Leaf("EQUAL", "=", "  ", 3, 9),
        Leaf("NUMBER", "2", " ", 5, 9),
        Leaf("NEWLINE", "\n", "", 6, 8),
        Node("simple_stmt", <<15, 19>>, 1),
        Node("expr_stmt", <<16, 17, 18>>, 14),
        Leaf("NAME", "z", "# fmt:off\n", 0, 15),
        Leaf("EQUAL", "=", "  ", 3, 15),
        Leaf("NUMBER", "3", " ", 5, 15),
        Leaf("NEWLINE", "\n", "", 6, 14),
        Leaf("ENDMARKER", "", "# fmt:on\n", 0, 1)
     >>]

\* def f(): /     # fmt: off /     x   = 1 /     # fmt: on /     y  = 2
Input_in_def ==
    [text |-> "def f():\n    # fmt: off\n    x   = 1\n    # fmt: on\n    y  = 2\n",
     tree |-> <<
        Node("file_input", <<2, 25>>, 0),
        Node("funcdef", <<3, 4, 5, 8, 9>>, 1),
        Leaf("NAME", "def", "", 0, 2),
        Leaf("NAME", "f", " ", 4, 2),
        Node("parameters", <<6, 7>>, 2),
        Leaf("LPAR", "(", "", 5, 5),
        Leaf("RPAR", ")", "", 6, 5),
        Leaf("COLON", ":", "", 7, 2),
        Node("suite", <<10, 11, 12, 18, 24>>, 2),
        Leaf("NEWLINE", "\n", "", 8, 9),
        Leaf("INDENT", "", "", 0, 9),
        Node("simple_stmt", <<13, 17>>, 9),
        Node("expr_stmt", <<14, 15, 16>>, 12),
        Leaf("NAME", "x", "    # fmt: off\n    ", 4, 13),
        Leaf("EQUAL", "=", "   ", 8, 13),
        Leaf("NUMBER", "1", " ", 10, 13),
        Leaf("NEWLINE", "\n", "", 11, 12),
        Node("simple_stmt", <<19, 23>>, 9),
        Node("expr_stmt", <<20, 21, 22>>, 18),
        Leaf("NAME", "y", "    # fmt: on\n    ", 4, 19),
        Leaf("EQUAL", "=", "  ", 7, 19),
        Leaf("NUMBER", "2", " ", 9, 19),
        Leaf("NEWLINE", "\n", "", 10, 18),
        Leaf("DEDENT", "", "", 0, 9),
        Leaf("ENDMARKER", "", "", 0, 1)
     >>]

\* x  = 1  # fmt: off / y  = 2
Input_inline_off ==
    [text |-> "x  = 1  # fmt: off\ny  = 2\n",
     tree |-> <<
        Node("file_input", <<2, 8, 14>>, 0),
        Node("simple_stmt", <<3, 7>>, 1),
        Node("expr_stmt", <<4, 5, 6>>, 2),
        Leaf("NAME", "x", "", 0, 3),
        Leaf("EQUAL", "=", "  ", 3, 3),
        Leaf("NUMBER", "1", " ", 5, 3),
        Leaf("NEWLINE", "\n", "  # fmt: off", 18, 2),
        Node("simple_stmt", <<9, 13>>, 1),
        Node("expr_stmt", <<10, 11, 12>>, 8),
        Leaf("NAME", "y", "", 0, 9),
        Leaf("EQUAL", "=", "  ", 3, 9),
        Leaf("NUMBER", "2", " ", 5, 9),
        Leaf("NEWLINE", "\n", "", 6, 8),
        Leaf("ENDMARKER", "", "", 0, 1)
     >>]

\* a = 1; b  = 2  # fmt: skip
Input_skip_semi ==
    [text |-> "a = 1; b  = 2  # fmt: skip\n",
     tree |-> <<
        Node("file_input", <<2, 13>>, 0),
        Node("simple_stmt", <<3, 7, 8, 12>>, 1),
        Node("expr_stmt", <<4, 5, 6>>, 2),
        Leaf("NAME", "a", "", 0, 3),
        Leaf("EQUAL", "=", " ", 2, 3),
        Leaf("NUMBER", "1", " ", 4, 3),
        Leaf("SEMI", ";", "", 5, 2),
        Node("expr_stmt", <<9, 10, 11>>, 2),
        Leaf("NAME", "b", " ", 7, 8),
        Leaf("EQUAL", "=", "  ", 10, 8),
        Leaf("NUMBER", "2", " ", 12, 8),
        Leaf("NEWLINE", "\n", "  # fmt: skip", 26, 2),
        Leaf("ENDMARKER", "", "", 0, 1)
     >>]

\* x    =1  #fmt: skip / y   =2
Input_skip_nosp ==
    [text |-> "x    =1  #fmt: skip\ny   =2\n",
     tree |-> <<
        Node("file_input", <<2, 8, 14>>, 0),
        Node("simple_stmt", <<3, 7>>, 1),
        Node("expr_stmt", <<4, 5, 6>>, 2),
        Leaf("NAME", "x", "", 0, 3),
        Leaf("EQUAL", "=", "    ", 5, 3),
        Leaf("NUMBER", "1", "", 6, 3),
        Leaf("NEWLINE", "\n", "  #fmt: skip", 19, 2),
        Node("simple_stmt", <<9, 13>>, 1),
        Node("expr_stmt", <<10, 11, 12>>, 8),
        Leaf("NAME", "y", "", 0, 9),
        Leaf("EQUAL", "=", "   ", 4, 9),
        Leaf("NUMBER", "2", "", 5, 9),
        Leaf("NEWLINE", "\n", "", 6, 8),
        Leaf("ENDMARKER", "", "", 0, 1)
     >>]

\* # fmt: skip
Input_skip_alone ==
    [text |-> "# fmt: skip\n",
     tree |-> <<
        Node("file_input", <<2>>, 0),
        Leaf("ENDMARKER", "", "# fmt: skip\n", 0, 1)
     >>]

\* pass / # fmt: skip / x  = 1
Input_skip_own ==
    [text |-> "pass\n# fmt: skip\nx  = 1\n",
     tree |-> <<
        Node("file_input", <<2, 5, 11>>, 0),
        Node("simple_stmt", <<3, 4>>, 1),
        Leaf("NAME", "pass", "", 0, 2),
        Leaf("NEWLINE", "\n", "", 4, 2),
        Node("simple_stmt", <<6, 10>>, 1),
        Node("expr_stmt", <<7, 8, 9>>, 5),
        Leaf("NAME", "x", "# fmt: skip\n", 0, 6),
        Leaf("EQUAL", "=", "  ", 3, 6),
        Leaf("NUMBER", "1", " ", 5, 6),
        Leaf("NEWLINE", "\n", "", 6, 5),
        Leaf("ENDMARKER", "", "", 0, 1)
     >>]

\* # fmt: off / x = (1 / # fmt: on / )
Input_on_in_paren ==
    [text |-> "# fmt: off\nx = (1\n# fmt: on\n)\n",
     tree |-> <<
        Node("file_input", <<2, 11>>, 0),
        Node("simple_stmt", <<3, 10>>, 1),
        Node("expr_stmt", <<4, 5, 6>>, 2),
        Leaf("NAME", "x", "# fmt: off\n", 0, 3),
        Leaf("EQUAL", "=", " ", 2, 3),
        Node("atom", <<7, 8, 9>>, 3),
        Leaf("LPAR", "(", " ", 4, 6),
        Leaf("NUMBER", "1", "", 5, 6),
        Leaf("RPAR", ")", "\n# fmt: on\n", 0, 6),
        Leaf("NEWLINE", "\n", "", 1, 2),
        Leaf("ENDMARKER", "", "", 0, 1)
     >>]

\* # yapf: disable / x   = 1 / # yapf: enable
Input_yapf ==
    [text |-> "# yapf: disable\nx   = 1\n# yapf: enable\n",
     tree |-> <<
        Node("file_input", <<2, 8>>, 0),
        Node("simple_stmt", <<3, 7>>, 1),
        Node("expr_stmt", <<4, 5, 6>>, 2),
        Leaf("NAME", "x", "# yapf: disable\n", 0, 3),
        Leaf("EQUAL", "=", "   ", 4, 3),
        Leaf("NUMBER", "1", " ", 6, 3),
        Leaf("NEWLINE", "\n", "", 7, 2),
        Leaf("ENDMARKER", "", "# yapf: enable\n", 0, 1)
     >>]

\* # c / x    =1  # fmt: skip
Input_skip_after_c ==
    [text |-> "# c\nx    =1  # fmt: skip\n",
     tree |-> <<
        Node("file_input", <<2, 8>>, 0),
        Node("simple_stmt", <<3, 7>>, 1),
        Node("expr_stmt", <<4, 5, 6>>, 2),
        Leaf("NAME", "x", "# c\n", 0, 3),
        Leaf("EQUAL", "=", "    ", 5, 3),
        Leaf("NUMBER", "1", "", 6, 3),
        Leaf("NEWLINE", "\n", "  # fmt: skip", 20, 2),
        Leaf("ENDMARKER", "", "", 0, 1)
     >>]

\* f( /     # fmt: off /     a /     # fmt: on /     + b, /     c, / )
Input_plus ==
    [text |-> "f(\n    # fmt: off\n    a\n    # fmt: on\n    + b,\n    c,\n)\n",
     tree |-> <<
        Node("file_input", <<2, 17>>, 0),
        Node("simple_stmt", <<3, 16>>, 1),
        Node("power", <<4, 5>>, 2),
        Leaf("NAME", "f", "", 0, 3),
        Node("trailer", <<6, 7, 15>>, 3),
        Leaf("LPAR", "(", "", 1, 5),
        Node("arglist", <<8, 12, 13, 14>>, 5),
        Node("arith_expr", <<9, 10, 11>>, 7),
        Leaf("NAME", "a", "\n    # fmt: off\n    ", 4, 8),
        Leaf("PLUS", "+", "\n    # fmt: on\n    ", 4, 8),
        Leaf("NAME", "b", " ", 6, 8),
        Leaf("COMMA", ",", "", 7, 7),
        Leaf("NAME", "c", "\n    ", 4, 7),
        Leaf("COMMA", ",", "", 5, 7),
        Leaf("RPAR", ")", "\n", 0, 5),
        Leaf("NEWLINE", "\n", "", 1, 2),
        Leaf("ENDMARKER", "", "", 0, 1)
     >>]

\* # fmt: off / if a: /     b / # fmt: on / elif c: /     d
Input_elif ==
    [text |-> "# fmt: off\nif a:\n    b\n# fmt: on\nelif c:\n    d\n",
     tree |-> <<
        Node("file_input", <<2, 23>>, 0),
        Node("if_stmt", <<3, 4, 5, 6, 13, 14, 15, 16>>, 1),
        Leaf("NAME", "if", "# fmt: off\n", 0, 2),
        Leaf("NAME", "a", " ", 3, 2),
        Leaf("COLON", ":", "", 4, 2),
        Node("suite", <<7, 8, 9, 12>>, 2),
        Leaf("NEWLINE", "\n", "", 5, 6),
        Leaf("INDENT", "", "", 0, 6),
        Node("simple_stmt", <<10, 11>>, 6),
        Leaf("NAME", "b", "    ", 4, 9),
        Leaf("NEWLINE", "\n", "", 5, 9),
        Leaf("DEDENT", "", "", 0, 6),
        Leaf("NAME", "elif", "# fmt: on\n", 0, 2),
        Leaf("NAME", "c", " ", 5, 2),
        Leaf("COLON", ":", "", 6, 2),
        Node("suite", <<17, 18, 19, 22>>, 2),
        Leaf("NEWLINE", "\n", "", 7, 16),
        Leaf("INDENT", "", "", 0, 16),
        Node("simple_stmt", <<20, 21>>, 16),
        Leaf("NAME", "d", "    ", 4, 19),
        Leaf("NEWLINE", "\n", "", 5, 19),
        Leaf("DEDENT", "", "", 0, 16),
        Leaf("ENDMARKER", "", "", 0, 1)
     >>]

\* setup( /     entry_points={ /         # fmt: off /         "console_scripts": [ /             "foo-bar" /             "=foo.bar.:main", /         # fmt: on /         ] /     }, / )
Input_fmtonoff5_1 ==
    [text |-> "setup(\n    entry_points={\n        # fmt: off\n        \"console_scripts\": [\n            \"foo-bar\"\n            \"=foo.bar.:main\",\n        # fmt: on\n        ]\n    },\n)\n",
     tree |-> <<
        Node("file_input", <<2, 28>>, 0),
        Node("simple_stmt", <<3, 27>>, 1),
        Node("power", <<4, 5>>, 2),
        Leaf("NAME", "setup", "", 0, 3),
        Node("trailer", <<6, 7, 26>>, 3),
        Leaf("LPAR", "(", "", 5, 5),
        Node("arglist", <<8, 25>>, 5),
        Node("argument", <<9, 10, 11>>, 7),
        Leaf("NAME", "entry_points", "\n    ", 4, 8),
        Leaf("EQUAL", "=", "", 16, 8),
        Node("atom", <<12, 13, 24>>, 8),
        Leaf("LBRACE", "{", "", 17, 11),
        Node("dictsetmaker", <<14, 15, 16>>, 11),
        Leaf("STRING", "\"console_scripts\"", "\n        # fmt: off\n        ", 8, 13),
        Leaf("COLON", ":", "", 25, 13),
        Node("atom", <<17, 18, 23>>, 13),
        Leaf("LSQB", "[", " ", 27, 16),
        Node("listmaker", <<19, 22>>, 16),
        Node("atom", <<20, 21>>, 18),
        Leaf("STRING", "\"foo-bar\"", "\n            ", 12, 19),
        Leaf("STRING", "\"=foo.bar.:main\"", "\n            ", 12, 19),
        Leaf("COMMA", ",", "", 28, 18),
        Leaf("RSQB", "]", "\n        # fmt: on\n        ", 8, 16),
        Leaf("RBRACE", "}", "\n    ", 4, 11),
        Leaf("COMMA", ",", "", 5, 7),
        Leaf("RPAR", ")", "\n", 0, 5),
        Leaf("NEWLINE", "\n", "", 1, 2),
        Leaf("ENDMARKER", "", "", 0, 1)
     >>]

\* run( /     # fmt: off /     [ /         "ls", /         "-la", /     ] /     # fmt: on /     + path /     , /     check=True, / )
Input_fmtonoff5_2 ==
    [text |-> "run(\n    # fmt: off\n    [\n        \"ls\",\n        \"-la\",\n    ]\n    # fmt: on\n    + path\n    ,\n    check=True,\n)\n",
     tree |-> <<
        Node("file_input", <<2, 27>>, 0),
        Node("simple_stmt", <<3, 26>>, 1),
        Node("power", <<4, 5>>, 2),
        Leaf("NAME", "run", "", 0, 3),
        Node("trailer", <<6, 7, 25>>, 3),
        Leaf("LPAR", "(", "", 3, 5),
        Node("arglist", <<8, 19, 20, 24>>, 5),
        Node("arith_expr", <<9, 17, 18>>, 7),
        Node("atom", <<10, 11, 16>>, 8),
        Leaf("LSQB", "[", "\n    # fmt: off\n    ", 4, 9),
        Node("listmaker", <<12, 13, 14, 15>>, 9),
        Leaf("STRING", "\"ls\"", "\n        ", 8, 11),
        Leaf("COMMA", ",", "", 12, 11),
        Leaf("STRING", "\"-la\"", "\n        ", 8, 11),
        Leaf("COMMA", ",", "", 13, 11),
        Leaf("RSQB", "]", "\n    ", 4, 9),
        Leaf("PLUS", "+", "\n    # fmt: on\n    ", 4, 8),
        Leaf("NAME", "path", " ", 6, 8),
        Leaf("COMMA", ",", "\n    ", 4, 7),
        Node("argument", <<21, 22, 23>>, 7),
        Leaf("NAME", "check", "\n    ", 4, 20),
        Leaf("EQUAL", "=", "", 9, 20),
        Leaf("NAME", "True", "", 10, 20),
        Leaf("COMMA", ",", "", 14, 7),
        Leaf("RPAR", ")", "\n", 0, 5),
        Leaf("NEWLINE", "\n", "", 1, 2),
        Leaf("ENDMARKER", "", "", 0, 1)
     >>]

\* # c /  /  / # fmt: off / x  = 1 / # fmt: on
Input_blank_before ==
    [text |-> "# c\n\n\n# fmt: off\nx  = 1\n# fmt: on\n",
     tree |-> <<
        Node("file_input", <<2, 8>>, 0),
        Node("simple_stmt", <<3, 7>>, 1),
        Node("expr_stmt", <<4, 5, 6>>, 2),
        Leaf("NAME", "x", "# c\n\n\n# fmt: off\n", 0, 3),
        Leaf("EQUAL", "=", "  ", 3, 3),
        Leaf("NUMBER", "1", " ", 5, 3),
        Leaf("NEWLINE", "\n", "", 6, 2),
        Leaf("ENDMARKER", "", "# fmt: on\n", 0, 1)
     >>]

\* y = 1 /  /  / x    =1  # fmt: skip
Input_skip_after_blank ==
    [text |-> "y = 1\n\n\nx    =1  # fmt: skip\n",
     tree |-> <<
        Node("file_input", <<2, 8, 14>>, 0),
        Node("simple_stmt", <<3, 7>>, 1),
        Node("expr_stmt", <<4, 5, 6>>, 2),
        Leaf("NAME", "y", "", 0, 3),
        Leaf("EQUAL", "=", " ", 2, 3),
        Leaf("NUMBER", "1", " ", 4, 3),
        Leaf("NEWLINE", "\n", "", 5, 2),
        Node("simple_stmt", <<9, 13>>, 1),
        Node("expr_stmt", <<10, 11, 12>>, 8),
        Leaf("NAME", "x", "\n\n", 0, 9),
        Leaf("EQUAL", "=", "    ", 5, 9),
        Leaf("NUMBER", "1", "", 6, 9),
        Leaf("NEWLINE", "\n", "  # fmt: skip", 20, 8),
        Leaf("ENDMARKER", "", "", 0, 1)
     >>]

Inputs ==
    <<Input_basic,
      Input_to_eof,
      Input_trailing,
      Input_decorator,
      Input_in_list,
      Input_skip,
      Input_skip_if,
      Input_off_on,
      Input_after_c,
      Input_two,
      Input_in_def,
      Input_inline_off,
      Input_skip_semi,
      Input_skip_nosp,
      Input_skip_alone,
      Input_skip_own,
      Input_on_in_paren,
      Input_yapf,
      Input_skip_after_c,
      Input_plus,
      Input_elif,
      Input_fmtonoff5_1,
      Input_fmtonoff5_2,
      Input_blank_before,
      Input_skip_after_blank>>

InitFmt ==
    /\ OrchIdle
    /\ QuoteIdle
    /\ TextIdle
    /\ SchedIdle
    /\ \E i \in 1..Len(Inputs) :
          /\ source = Inputs[i].text
          /\ tree = Inputs[i].tree
    /\ fpc = "leaf"
    /\ leaf_index = 1
    /\ comments_left = <<>>
    /\ comment = NoComment
    /\ previous_consumed = 0
    /\ container = 0
    /\ ignored_nodes = <<>>
    /\ frozen = <<>>

NextFmt ==
    \/ NextLeaf
    \/ NextComment
    \/ GenerateIgnoredNodesSkip
    \/ GenerateIgnoredNodes
    \/ ConvertOneFmtOffPair

SpecFmt == InitFmt /\ [][NextFmt]_vars


---------------------------------------------------------------------------
(* Claims about the format-region isolator.  They compare the frozen       *)
(* leaves with the lines of the text that was parsed.                      *)

\* the comment a line of the text holds, "" when it has none (the inputs
\* have no # inside a string)
MarkerOf(line) ==
    IF ~Contains(line, "#") THEN ""
    ELSE make_comment(Slice(line, Find(line, "#") - 1, Len(line)))

\* what comes before the comment on its line, without the spaces around it
CodeOf(line) ==
    IF ~Contains(line, "#") THEN RStripSpace(LStripSpace(line))
    ELSE RStripSpace(LStripSpace(Slice(line, 0, Find(line, "#") - 1)))

\* the first line from position from on that holds nothing but a marker of
\* the set, 0 when there is none
MarkerLine(lines, from, markers) ==
    LET hits == {i \in from..Len(lines) :
                    CodeOf(lines[i]) = "" /\ MarkerOf(lines[i]) \in markers}
    IN  IF hits = {} THEN 0 ELSE CHOOSE i \in hits : \A j \in hits : i <= j

OffLine == MarkerLine(SplitLines(source), 1, FMT_OFF)

OnLine == IF OffLine = 0 THEN 0
          ELSE MarkerLine(SplitLines(source), OffLine + 1, FMT_ON)

\* the lines a to b of the text, each with its newline
RECURSIVE LinesText(_, _, _)
LinesText(lines, a, b) ==
    IF a > b THEN "" ELSE lines[a] \o "\n" \o LinesText(lines, a + 1, b)

\* the text between the line of the first # fmt: off and the line of the
\* # fmt: on that follows it
Region == LinesText(SplitLines(source), OffLine + 1, OnLine - 1)

\* the first line with code and a trailing # fmt: skip, 0 when there is none
SkipLine ==
    LET lines == SplitLines(source)
        hits == {i \in 1..Len(lines) :
                    CodeOf(lines[i]) # "" /\ MarkerOf(lines[i]) \in FMT_SKIP}
    IN  IF hits = {} THEN 0 ELSE CHOOSE i \in hits : \A j \in hits : i <= j

\* C5: for a matched # fmt: off / # fmt: on pair the frozen leaf has as its
\* value the marker, one newline and the exact text between the line of the
\* disable marker and the enable marker, less at most one trailing newline:
\* nothing of the region is missing or altered, nothing outside it is taken.
C5_FrozenRegionExact ==
    (/\ OffLine # 0
     /\ OnLine # 0
     /\ frozen # <<>>
     /\ frozen[1].marker \in FMT_OFF)
    => LET v == tree[frozen[1].id].value
           full == frozen[1].marker \o "\n" \o Region
       IN  \/ v = full
           \/ EndsWith(full, "\n") /\ v = Slice(full, 0, Len(full) - 1)

\* C6: for a statement with a trailing # fmt: skip the frozen leaf has as its
\* value the text of the statement, two spaces and the marker, and it takes
\* in nothing of a following line.
C6_SkipStatementExact ==
    (/\ SkipLine # 0
     /\ frozen # <<>>
     /\ frozen[1].marker \in FMT_SKIP)
    => LET v == tree[frozen[1].id].value
       IN  /\ v = CodeOf(SplitLines(source)[SkipLine]) \o "  " \o frozen[1].marker
           /\ ~Contains(v, "\n")

\* the markers the text holds
MarkerCount ==
    Cardinality({i \in 1..Len(SplitLines(source)) :
                    MarkerOf(SplitLines(source)[i]) \in FMT_PASS})

\* C7: normalize_fmt_off terminates on every tree.  The walk of
\* generate_ignored_nodes yields finitely many nodes: it reads the tree and
\* changes nothing but its container, so it never yields a node twice; and
\* the loop of normalize_fmt_off makes no more conversions than the text has
\* markers.
C7_Terminates ==
    /\ \A i, j \in 1..Len(ignored_nodes) :
           ignored_nodes[i] = ignored_nodes[j] => i = j
    /\ Len(frozen) <= MarkerCount

---------------------------------------------------------------------------
(* The f-string simplification: src/black/strings.py *)

\* s.replace(q, r), which is also re.sub of a pattern that matches only q:
\* the occurrences are taken leftmost first and do not overlap
RECURSIVE Replace(_, _, _)
Replace(s, q, r) ==
    LET k == Find(s, q)
    IN  IF k = 0 THEN s
        ELSE Slice(s, 0, k - 1) \o r
             \o Replace(Slice(s, k - 1 + Len(q), Len(s)), q, r)

\* s.lower(), for the letters of the string prefixes
RECURSIVE LowerStr(_)
LowerStr(s) ==
    IF s = "" THEN "" ELSE Lower(Ch(s, 1)) \o LowerStr(Slice(s, 1, Len(s)))

\* lines 87-103: the leading characters of the literal that are prefix
\* characters
get_string_prefix(string) == Slice(string, 0, LeadingIn(string, STRING_PREFIX_CHARS))

\* an inner loop that stops where it starts
SkipNothing(s, k, delim) == k

\* lines 273-277: the inner loop, from position k (counted from 0) to the
\* next occurrence of delim or to the end of s
RECURSIVE SkipToDelim(_, _, _)
SkipToDelim(s, k, delim) ==
    IF k < Len(s) /\ Slice(s, k, k + Len(delim)) # delim
    THEN SkipToDelim(s, k + 1, delim)
    ELSE k

\* lines 243-279: the loop of iterate_f_string from position i (counted from
\* 0) with the stack of the open braces; the result is the spans it yields
RECURSIVE IterateFrom(_, _, _)
IterateFrom(s, i, stack) ==
    IF i >= Len(s) THEN <<>>
    ELSE LET c == Ch(s, i + 1)
             delim == IF Slice(s, i, i + 3) \in {"'''", "\"\"\""}
                      THEN Slice(s, i, i + 3)
                      ELSE IF c \in {"'", "\""} THEN c
                      ELSE ""
         IN  IF c = "{"
             THEN IF stack = <<>> /\ i + 1 < Len(s) /\ Ch(s, i + 2) = "{"
                  THEN IterateFrom(s, i + 2, stack)
                  ELSE IterateFrom(s, i + 1, Append(stack, i))
             ELSE IF c = "}"
             THEN IF stack = <<>> THEN IterateFrom(s, i + 1, stack)
                  ELSE LET j == stack[Len(stack)]
                           popped == SubSeq(stack, 1, Len(stack) - 1)
                       IN  (IF popped = <<>> THEN << <<j, i + 1>> >> ELSE <<>>)
                           \o IterateFrom(s, i + 1, popped)
             ELSE IF stack # <<>> /\ delim # ""
             THEN IterateFrom(s, SkipToDelim(s, i + Len(delim), delim) + Len(delim),
                              stack)
             ELSE IterateFrom(s, i + 1, stack)

iterate_f_string(s) == IterateFrom(s, 0, <<>>)

fstring_contains_expr(s) == iterate_f_string(s) # <<>>

normalize_f_string(string, prefix) ==
    IF Contains(prefix, "f") /\ ~fstring_contains_expr(string)
    THEN LET new_prefix == Replace(prefix, "f", "")
             temp == Slice(string, Len(prefix), Len(string))
         IN  new_prefix \o Replace(Replace(temp, "{{", "{"), "}}", "}")
    ELSE string

\* the longest body of the literals
MaxFBody == 5

FPrefixes == {"", "f", "F", "rf", "Rb"}

RECURSIVE FBodies(_)
FBodies(n) ==
    IF n = 0 THEN {""}
    ELSE FBodies(n - 1)
         \cup {b \o c : b \in FBodies(n - 1), c \in {"{", "}", "a", "'"}}

FLiterals == {p \o "\"" \o b \o "\"" : p \in FPrefixes, b \in FBodies(MaxFBody)}

NormalizeFString ==
    /\ tpc = "start"
    /\ tfn = "normalize_f_string"
    /\ tout' = normalize_f_string(targ, targ2)
    /\ tpc' = "done"
    /\ UNCHANGED <<tfn, targ, targ2>>
    /\ UNCHANGED notText

\* list(iterate_f_string(s)): the generator run to its end
IterateFString ==
    /\ tpc = "start"
    /\ tfn = "iterate_f_string"
    /\ tout' = iterate_f_string(targ)
    /\ tpc' = "done"
    /\ UNCHANGED <<tfn, targ, targ2>>
    /\ UNCHANGED notText

\* the prefix handed over is the prefix of the literal, as it is written or
\* in lower case; the scanner is also run on strings that are no literals
InitFString ==
    /\ OrchIdle
    /\ QuoteIdle
    /\ FmtIdle
    /\ SchedIdle
    /\ tfn \in {"normalize_f_string", "iterate_f_string"}
    /\ targ \in IF tfn = "normalize_f_string" THEN FLiterals
                ELSE FLiterals \cup FBodies(MaxFBody)
    /\ targ2 \in IF tfn = "normalize_f_string"
                 THEN {get_string_prefix(targ), LowerStr(get_string_prefix(targ))}
                 ELSE {""}
    /\ tout = ""
    /\ tpc = "start"

NextFString == NormalizeFString \/ IterateFString

SpecFString == InitFString /\ [][NextFString]_vars

---------------------------------------------------------------------------
(* Claims about the f-string simplification *)

\* the number of characters c that s has from position i (counted from 1) on
\* without a break
RECURSIVE RunOf(_, _, _)
RunOf(s, i, c) ==
    IF i <= Len(s) /\ Ch(s, i) = c THEN 1 + RunOf(s, i + 1, c) ELSE 0

RECURSIVE Repeat(_, _)
Repeat(c, n) == IF n <= 0 THEN "" ELSE c \o Repeat(c, n - 1)

\* every doubled brace of s made single: a run of n equal braces keeps one
\* brace for each pair and the brace that is left over
RECURSIVE Collapsed(_, _)
Collapsed(s, i) ==
    IF i > Len(s) THEN ""
    ELSE LET c == Ch(s, i)
             n == RunOf(s, i, c)
         IN  IF c \in {"{", "}"}
             THEN Repeat(c, (n + 1) \div 2) \o Collapsed(s, i + n)
             ELSE c \o Collapsed(s, i + 1)

\* the prefix without its f, in either case
DropF(p) == Replace(Replace(p, "f", ""), "F", "")

CarriesF(s) == InCasefold("f", get_string_prefix(s))

AfterPrefix(s) == Slice(s, Len(get_string_prefix(s)), Len(s))

\* C11: normalize_f_string on a literal with an f or F prefix in which the
\* scanner finds no expression span returns the literal with the f dropped
\* from its prefix and every {{ and }} made a single brace; on a literal in
\* which the scanner finds an expression span it returns the literal
\* unchanged.
C11_FStringSimplified ==
    (tfn = "normalize_f_string" /\ tpc = "done") =>
        /\ (CarriesF(targ) /\ ~fstring_contains_expr(targ)) =>
              tout = DropF(get_string_prefix(targ)) \o Collapsed(AfterPrefix(targ), 1)
        /\ fstring_contains_expr(targ) => tout = targ

\* the same with the prefix handed over in lower case, and the other letters
\* of the prefix left out of the comparison
C11_LowerCasePrefix ==
    (tfn = "normalize_f_string" /\ tpc = "done"
        /\ targ2 = LowerStr(get_string_prefix(targ))) =>
        /\ (CarriesF(targ) /\ ~fstring_contains_expr(targ)) =>
              LowerStr(tout) = LowerStr(DropF(get_string_prefix(targ)))
                                 \o Collapsed(AfterPrefix(targ), 1)
        /\ fstring_contains_expr(targ) => tout = targ

---------------------------------------------------------------------------
(* The docstring reindentation: src/black/strings.py *)

\* s.strip()
StripSpace(s) == RStripSpace(LStripSpace(s))

\* the line boundaries of str.splitlines() that the texts can hold
LINE_BOUNDARIES == "\n\r\f"

\* the position (counted from 1) of the first line boundary of s, 0: none
FirstBoundary(s) ==
    LET at == {i \in 1..Len(s) : InChars(Ch(s, i), LINE_BOUNDARIES)}
    IN  IF at = {} THEN 0 ELSE CHOOSE i \in at : \A j \in at : i <= j

\* s.splitlines(): a boundary ends a line, "\r\n" is one boundary, and the
\* text after the last boundary is a line only when it is not empty
RECURSIVE PySplitLines(_)
PySplitLines(s) ==
    IF s = "" THEN <<>>
    ELSE LET k == FirstBoundary(s)
             w == IF k > 0 /\ Ch(s, k) = "\r" /\ k < Len(s) /\ Ch(s, k + 1) = "\n"
                  THEN 2 ELSE 1
         IN  IF k = 0 THEN <<s>>
             ELSE <<Slice(s, 0, k - 1)>> \o PySplitLines(Slice(s, k - 1 + w, Len(s)))

\* "\n".join(seq)
RECURSIVE JoinLines(_)
JoinLines(seq) ==
    IF seq = <<>> THEN ""
    ELSE IF Len(seq) = 1 THEN seq[1]
    ELSE seq[1] \o "\n" \o JoinLines(Tail(seq))

\* s.expandtabs() from position i (counted from 1) at column col: a tab goes
\* to the next multiple of 8
RECURSIVE ExpandTabsFrom(_, _, _)
ExpandTabsFrom(s, i, col) ==
    IF i > Len(s) THEN ""
    ELSE IF Ch(s, i) = "\t"
         THEN Repeat(" ", 8 - (col % 8)) \o ExpandTabsFrom(s, i + 1, col + 8 - (col % 8))
         ELSE IF InChars(Ch(s, i), "\n\r")
         THEN Ch(s, i) \o ExpandTabsFrom(s, i + 1, 0)
         ELSE Ch(s, i) \o ExpandTabsFrom(s, i + 1, col + 1)

expandtabs(s) == ExpandTabsFrom(s, 1, 0)

\* lines 49-58: FIRST_NON_WHITESPACE_RE matches a line whose leading
\* whitespace holds a tab and is followed by another character; group 1 is
\* that character
expanded_line(line) ==
    LET first_non_whitespace_idx == LeadingIn(line, SPACE_CHARS)
    IN  IF /\ first_non_whitespace_idx < Len(line)
           /\ Contains(Slice(line, 0, first_non_whitespace_idx), "\t")
        THEN expandtabs(Slice(line, 0, first_non_whitespace_idx))
             \o Slice(line, first_non_whitespace_idx, Len(line))
        ELSE line

lines_with_leading_tabs_expanded(s) ==
    LET ls == PySplitLines(s) IN [i \in 1..Len(ls) |-> expanded_line(ls[i])]

\* sys.maxsize, which no indentation reaches
maxsize == 2147483647

Minimum(S) == CHOOSE x \in S : \A y \in S : x <= y

\* lines 68-72
docstring_indent(lines) ==
    Minimum({maxsize} \cup
            {Len(lines[i]) - Len(LStripSpace(lines[i])) :
                i \in {j \in 2..Len(lines) : LStripSpace(lines[j]) # ""}})

\* a reindentation that treats the last line like the others
trimmed_line_blank_last(lines, i, indent, prefix) ==
    LET stripped_line == RStripSpace(Slice(lines[i], indent, Len(lines[i])))
    IN  IF stripped_line # "" THEN prefix \o stripped_line ELSE ""

\* lines 78-83, for line i (counted from 1): the last line is kept with its
\* indentation even when it is blank
trimmed_line(lines, i, indent, prefix) ==
    LET stripped_line == RStripSpace(Slice(lines[i], indent, Len(lines[i])))
    IN  IF stripped_line # "" \/ i = Len(lines) THEN prefix \o stripped_line
        ELSE ""

fix_docstring(docstring, prefix) ==
    IF docstring = "" THEN ""
    ELSE LET lines == lines_with_leading_tabs_expanded(docstring)
             indent == docstring_indent(lines)
             trimmed == <<StripSpace(lines[1])>>
                        \o (IF indent < maxsize
                            THEN [k \in 1..(Len(lines) - 1) |->
                                     trimmed_line(lines, k + 1, indent, prefix)]
                            ELSE <<>>)
         IN  JoinLines(trimmed)

\* the docstrings: up to MaxDocLines lines, with or without a final newline
MaxDocLines == 3

DocLines ==
    {ind \o body : ind \in {"", " ", "\t"}, body \in {"", "a"}}
    \cup {"a ", " a "}

RECURSIVE DocLineSeqs(_)
DocLineSeqs(n) ==
    IF n = 0 THEN {<<>>}
    ELSE DocLineSeqs(n - 1)
         \cup {Append(ls, l) : ls \in {x \in DocLineSeqs(n - 1) : Len(x) = n - 1},
                               l \in DocLines}

Docstrings ==
    {JoinLines(ls) \o e : ls \in DocLineSeqs(MaxDocLines), e \in {"", "\n"}}

FixDocstring ==
    /\ tpc = "start"
    /\ tfn = "fix_docstring"
    /\ tout' = fix_docstring(targ, targ2)
    /\ tpc' = "done"
    /\ UNCHANGED <<tfn, targ, targ2>>
    /\ UNCHANGED notText

InitDocstring ==
    /\ OrchIdle
    /\ QuoteIdle
    /\ FmtIdle
    /\ SchedIdle
    /\ tfn = "fix_docstring"
    /\ targ \in Docstrings
    /\ targ2 \in {"", "  "}
    /\ tout = ""
    /\ tpc = "start"

NextDocstring == FixDocstring

SpecDocstring == InitDocstring /\ [][NextDocstring]_vars

---------------------------------------------------------------------------
(* Claims about the docstring reindentation *)

\* the lines of the docstring, leading tabs expanded, and of the result
DocIn == lines_with_leading_tabs_expanded(targ)
DocOut == SplitLines(tout)

IsBlankLine(l) == StripSpace(l) = ""

\* the later lines that are not blank
LaterNonBlank == {i \in 2..Len(DocIn) : ~IsBlankLine(DocIn[i])}

\* the minimum indentation over them (0 when there is none)
MinIndent ==
    IF LaterNonBlank = {} THEN 0
    ELSE Minimum({LeadingIn(DocIn[i], SPACE_CHARS) : i \in LaterNonBlank})

\* line i without the minimum indentation and without trailing whitespace
Dedented(i) == RStripSpace(Slice(DocIn[i], MinIndent, Len(DocIn[i])))

\* the first line is stripped and not indented; a later line loses the
\* minimum indentation and gets the target indentation when it is non-blank
\* or the last line, and is empty otherwise
Reindented ==
    /\ Len(DocOut) = Len(DocIn)
    /\ DocOut[1] = StripSpace(DocIn[1])
    /\ \A i \in 2..Len(DocIn) :
          DocOut[i] = IF Dedented(i) # "" \/ i = Len(DocIn)
                      THEN targ2 \o Dedented(i)
                      ELSE ""

\* C12 as stated: every docstring is reindented in that way
C12_ReindentedAlways ==
    (tfn = "fix_docstring" /\ tpc = "done" /\ targ # "") => Reindented

\* C12: fix_docstring strips the first line and does not indent it; when
\* some later line is non-blank, the minimum indentation over the non-blank
\* later lines (leading tabs expanded) is removed from every later line, and
\* each later line that is non-blank after trimming, and the last line even
\* if blank, gets the target indentation while every other blank line
\* becomes empty; when every later line is blank the result is the stripped
\* first line alone, and the empty docstring gives the empty string.
C12_Reindented ==
    (tfn = "fix_docstring" /\ tpc = "done") =>
        IF targ = "" THEN tout = ""
        ELSE IF LaterNonBlank # {} THEN Reindented
        ELSE tout = StripSpace(DocIn[1])

\* a docstring of three lines, reindented: a blank line in the middle, a last
\* line indented deeper than the target, and a target indentation
C12_Witness ==
    /\ tfn = "fix_docstring"
    /\ tpc = "done"
    /\ targ2 # ""
    /\ Len(DocIn) = 3
    /\ IsBlankLine(DocIn[2])
    /\ DocIn[2] # ""
    /\ LaterNonBlank = {3}
    /\ MinIndent > 0
    /\ DocOut[2] = ""
    /\ DocOut[3] = targ2 \o "a"

---------------------------------------------------------------------------
(* The comment normalizer on its own: make_comment of src/black/comments.py *)

\* the comment lines list_comments hands over: a hash sign, a first
\* character, the text, and trailing whitespace
CommentFirsts == {"", " ", NON_BREAKING_SPACE, "\t", "!", ":", "#", "'", "%", "a"}

CommentTexts == {"", "a", "type: a", " type:", " a", "!"}

CommentTrails == {"", " ", " \t", NON_BREAKING_SPACE}

CommentLines ==
    {"#" \o f \o t \o e : f \in CommentFirsts, t \in CommentTexts, e \in CommentTrails}

MakeComment ==
    /\ tpc = "start"
    /\ tfn = "make_comment"
    /\ tout' = make_comment(targ)
    /\ tpc' = "done"
    /\ UNCHANGED <<tfn, targ, targ2>>
    /\ UNCHANGED notText

InitMakeComment ==
    /\ OrchIdle
    /\ QuoteIdle
    /\ FmtIdle
    /\ SchedIdle
    /\ tfn = "make_comment"
    /\ targ \in CommentLines
    /\ targ2 = ""
    /\ tout = ""
    /\ tpc = "start"

NextMakeComment == MakeComment

SpecMakeComment == InitMakeComment /\ [][NextMakeComment]_vars

---------------------------------------------------------------------------
(* Claims about the comment normalizer *)

\* the comment without its trailing whitespace, and what follows its #
Trimmed == RStripSpace(targ)
AfterHash == Slice(Trimmed, 1, Len(Trimmed))

EXEMPT == "!:#'%"

\* the result starts with #; a first character that is neither a space nor
\* exempt gets one space before it; an exempt first character leaves the
\* trimmed comment as it is
SpaceEnforced ==
    /\ StartsWith(tout, "#")
    /\ (AfterHash # "" /\ ~InChars(Ch(AfterHash, 1), " " \o EXEMPT)) =>
          tout = "# " \o AfterHash
    /\ (AfterHash # "" /\ InChars(Ch(AfterHash, 1), EXEMPT)) =>
          tout = Trimmed

\* C13 as stated: whatever the character after # is
C13_OneSpaceInserted ==
    (tfn = "make_comment" /\ tpc = "done") => SpaceEnforced

\* a non-breaking space after the #, not followed by a type: comment
ReplacedNbsp ==
    /\ StartsWith(AfterHash, NON_BREAKING_SPACE)
    /\ ~StartsWith(LStripSpace(AfterHash), "type:")

\* C13: make_comment returns text that starts with #.  A non-breaking space
\* after the # is replaced by a space, unless type: follows the leading
\* whitespace.  Otherwise a character after the # that is neither a space
\* nor one of !:#'% gets exactly one space inserted before it, and a comment
\* whose character after the # is a space or one of !:#'% is returned
\* unchanged; in every case the trailing whitespace is trimmed, and a
\* comment with nothing but whitespace after the # becomes #.
C13_SpaceAfterHash ==
    (tfn = "make_comment" /\ tpc = "done") =>
        /\ StartsWith(tout, "#")
        /\ IF AfterHash = "" THEN tout = "#"
           ELSE IF ReplacedNbsp
           THEN tout = "# " \o Slice(AfterHash, 1, Len(AfterHash))
           ELSE IF InChars(Ch(AfterHash, 1), " " \o EXEMPT)
           THEN tout = Trimmed
           ELSE tout = "# " \o AfterHash

\* #a with trailing whitespace became # a
C13_Witness ==
    /\ tfn = "make_comment"
    /\ tpc = "done"
    /\ StartsWith(targ, "#a")
    /\ targ # Trimmed
    /\ tout = "# " \o AfterHash

---------------------------------------------------------------------------
(* The comment extractor on its own: list_comments of src/black/comments.py *)

\* the lines of a prefix: blank lines, comments, backslash continuations
MaxPrefixLines == 3

PrefixLines == {"", "  ", "#a", "  # b", "\\", "  \\", "#c \\"}

RECURSIVE PrefixLineSeqs(_)
PrefixLineSeqs(n) ==
    IF n = 0 THEN {<<>>}
    ELSE PrefixLineSeqs(n - 1)
         \cup {Append(ls, l) : ls \in {x \in PrefixLineSeqs(n - 1) : Len(x) = n - 1},
                               l \in PrefixLines}

\* the line terminators of the source texts
LineEndings == {"\n", "\r\n"}

\* nl.join(seq)
RECURSIVE JoinWith(_, _)
JoinWith(seq, nl) ==
    IF seq = <<>> THEN ""
    ELSE IF Len(seq) = 1 THEN seq[1]
    ELSE seq[1] \o nl \o JoinWith(Tail(seq), nl)

PrefixTexts ==
    {JoinWith(ls, nl) : ls \in PrefixLineSeqs(MaxPrefixLines), nl \in LineEndings}

\* generate_comments, line 62: the type of the leaf decides is_endmarker
LeafTypes == {"ENDMARKER", "NAME"}

ListComments ==
    /\ tpc = "start"
    /\ tfn = "list_comments"
    /\ tout' = list_comments(targ, targ2 = "ENDMARKER")
    /\ tpc' = "done"
    /\ UNCHANGED <<tfn, targ, targ2>>
    /\ UNCHANGED notText

InitListComments ==
    /\ OrchIdle
    /\ QuoteIdle
    /\ FmtIdle
    /\ SchedIdle
    /\ tfn = "list_comments"
    /\ targ \in PrefixTexts
    /\ targ2 \in LeafTypes
    /\ tout = <<>>
    /\ tpc = "start"

NextListComments == ListComments

SpecListComments == InitListComments /\ [][NextListComments]_vars

---------------------------------------------------------------------------
(* Claims about the comment extractor *)

PrefixIn == SplitLines(targ)

IsCommentLine(l) == StartsWith(LStripSpace(l), "#")

\* a line that is no comment and ends in a backslash
IsContinuationLine(l) == ~IsCommentLine(l) /\ EndsWith(LStripSpace(l), "\\")

CommentLineIndexes == {i \in 1..Len(PrefixIn) : IsCommentLine(PrefixIn[i])}

\* the record of the comment of line k: the records are in the order of the
\* lines
RecordOf(k) == tout[Cardinality({i \in CommentLineIndexes : i <= k})]

Inline(k) ==
    /\ targ2 # "ENDMARKER"
    /\ \A i \in 1..(k - 1) : IsContinuationLine(PrefixIn[i])

\* C14: list_comments gives one record for each comment line of the prefix;
\* the record is inline (token.COMMENT) if and only if the leaf is not the
\* end-of-input marker and every line of the prefix before the comment is a
\* backslash-continuation line, and standalone otherwise; so at most one
\* record is inline, and it is the first record.
C14_InlineIffFirstLine ==
    (tfn = "list_comments" /\ tpc = "done") =>
        /\ Len(tout) = Cardinality(CommentLineIndexes)
        /\ \A k \in CommentLineIndexes :
              /\ RecordOf(k).type \in {"COMMENT", "STANDALONE_COMMENT"}
              /\ RecordOf(k).type = "COMMENT" <=> Inline(k)
        /\ \A j \in 2..Len(tout) : tout[j].type = "STANDALONE_COMMENT"

\* a prefix with a continuation line, an inline comment after it and a
\* standalone comment on the next line
C14_Witness ==
    /\ tfn = "list_comments"
    /\ tpc = "done"
    /\ Len(PrefixIn) = 3
    /\ IsContinuationLine(PrefixIn[1])
    /\ Len(tout) = 2
    /\ tout[1].type = "COMMENT"
    /\ tout[2].type = "STANDALONE_COMMENT"

---------------------------------------------------------------------------
(* Claims about the callers of the pipeline, checked under Spec *)

Reporters == {"reformat_one", "reformat_code", "schedule_formatting"}

\* C15: an AssertionError raised by the equivalence or the stability check
\* stays in flight through every handler between the check and the caller
\* (the loop of format_ipynb_string, format_file_in_place,
\* format_stdin_to_stdout), with no value returned and nothing reported,
\* until reformat_one, reformat_code or schedule_formatting records it with
\* report.failed; report.done is never called for that source.
C15_FaultNeverSwallowed ==
    [][exc = "AssertionError" =>
          \/ /\ exc' = "AssertionError"
             /\ ret' = "none"
             /\ report' = <<>>
          \/ /\ pc' = "reported"
             /\ ret' = "none"
             /\ \E by \in Reporters : report' = <<Failed(by, "AssertionError")>>]_vars

\* the equivalence check failed on the second cell of a notebook, after the
\* first cell was rewritten, and schedule_formatting recorded the failure
C15_Witness ==
    /\ pc = "reported"
    /\ is_ipynb
    /\ cellidx = 2
    /\ modified
    /\ ~Equivalent(chk[1], chk[2])
    /\ report = <<Failed("schedule_formatting", "AssertionError")>>

---------------------------------------------------------------------------
(* Concurrent formatting of several files: schedule_formatting and the     *)
(* workers that run format_file_in_place (src/black/__init__.py)           *)

\* the files of a run
MaxSources == 2
\* the writes one diff takes on standard output
DiffParts == 2

Sources == 1..MaxSources

DiffModes == {"DIFF", "COLOR_DIFF"}

\* sorted(S)
RECURSIVE Sorted(_)
Sorted(S) ==
    IF S = {} THEN <<>>
    ELSE LET m == Minimum(S) IN <<m>> \o Sorted(S \ {m})

\* the values of lock besides the source whose worker holds it: there is
\* no lock, and no worker holds the lock
LockNone == -1
LockFree == 0

\* WriteBack.from_configuration without its test of check
from_configuration_diff_only(c, d, col) ==
    IF d /\ col THEN "COLOR_DIFF"
    ELSE IF d THEN "DIFF" ELSE "YES"

\* WriteBack.from_configuration(check=c, diff=d, color=col)
from_configuration(c, d, col) ==
    IF c /\ ~d THEN "CHECK"
    ELSE IF d /\ col THEN "COLOR_DIFF"
    ELSE IF d THEN "DIFF" ELSE "YES"

\* the options of the run
options == <<check, diff, color>>

\* a run that stores every source that was formatted
WorthCachingAlways(wb, changed) == TRUE

\* lines 837-839: "If the file was written back or was successfully checked
\* as well-formatted, store this information in the cache."
WorthCaching(wb, changed) ==
    \/ wb = "YES"
    \/ wb = "CHECK" /\ changed = "NO"

\* lines 793-795: the cache is empty for diff output and read from the
\* store otherwise; its entries are the sources it holds with the
\* fingerprint they have now
read_cache(wb) == IF wb \in DiffModes THEN {} ELSE persisted

\* filter_cached, line 796: the sources the cache holds as they are
filter_cached(c, sources) == sources \cap c

\* a run that shares no lock
NoLock(wb) == LockNone

\* lines 804-809: the lock is made for diff output only
NewLock(wb) == IF wb \in DiffModes THEN LockFree ELSE LockNone

\* a loop that takes every finished task for a success
LoopEventAlwaysDone(st) == "done"

\* lines 829-841: what the loop does with a finished task
LoopEvent(st) ==
    IF st = "cancelled" THEN "cancelled"
    ELSE IF st = "raised" THEN "failed"
    ELSE "done"

SDone(s, changed) == [call |-> "done", source |-> s, changed |-> changed]
SFailed(s) == [call |-> "failed", source |-> s, changed |-> "none"]

\* schedule_formatting up to the while loop: the cached sources are
\* reported, the lock and the tasks are made
ScheduleFormatting ==
    /\ spc = "start"
    /\ LET cached == filter_cached(read_cache(swrite_back), Sources)
       IN  /\ sreport' = [i \in 1..Cardinality(cached) |->
                             SDone(Sorted(cached)[i], "CACHED")]
           /\ status' = [s \in Sources |->
                            IF s \in cached THEN "cached" ELSE "running"]
           /\ IF cached = Sources
              THEN /\ spc' = "returned"
                   /\ UNCHANGED <<pending, wpc, lock>>
              ELSE /\ spc' = "wait"
                   /\ pending' = Sources \ cached
                   /\ wpc' = [s \in Sources |->
                                 IF s \in cached THEN "idle" ELSE "format"]
                   /\ lock' = NewLock(swrite_back)
    /\ UNCHANGED <<options, swrite_back, persisted, out, files, cancelled,
                   sources_to_cache, cache, done_tasks>>
    /\ UNCHANGED notSched

\* the future of s gets its result, unless it was cancelled before
Finish(s, st) ==
    /\ wpc' = [wpc EXCEPT ![s] = "end"]
    /\ status' = IF status[s] = "running" THEN [status EXCEPT ![s] = st]
                 ELSE status

\* a worker: format_file_in_place up to the writing of the diff
WorkerFormat(s) ==
    /\ wpc[s] = "format"
    /\ \E o \in {"NothingChanged", "raised", "changed"} :
         IF o = "NothingChanged"
         THEN Finish(s, "False") /\ UNCHANGED files
         ELSE IF o = "raised"
         THEN Finish(s, "raised") /\ UNCHANGED files
         ELSE IF swrite_back = "YES"
         THEN Finish(s, "True") /\ files' = [files EXCEPT ![s] = "rewritten"]
         ELSE IF swrite_back \in DiffModes
         THEN /\ wpc' = [wpc EXCEPT ![s] = "acquire"]
              /\ UNCHANGED <<status, files>>
         ELSE Finish(s, "True") /\ UNCHANGED files
    /\ UNCHANGED <<options, swrite_back, persisted, spc, pending, lock, out, sreport, cancelled,
                   sources_to_cache, cache, done_tasks>>
    /\ UNCHANGED notSched

\* a worker: with lock or nullcontext()
WorkerAcquire(s) ==
    /\ wpc[s] = "acquire"
    /\ lock \in {LockNone, LockFree}
    /\ lock' = IF lock = LockNone THEN LockNone ELSE s
    /\ wpc' = [wpc EXCEPT ![s] = "write"]
    /\ UNCHANGED <<options, swrite_back, persisted, spc, pending, status, out, files, sreport,
                   cancelled, sources_to_cache, cache, done_tasks>>
    /\ UNCHANGED notSched

PartsWritten(s) == Cardinality({i \in DOMAIN out : out[i][1] = s})

\* a worker: f.write(diff_contents), one part of the diff
WorkerWrite(s) ==
    /\ wpc[s] = "write"
    /\ PartsWritten(s) < DiffParts
    /\ out' = Append(out, <<s, PartsWritten(s) + 1>>)
    /\ UNCHANGED <<options, swrite_back, persisted, spc, pending, status, wpc, lock, files,
                   sreport, cancelled, sources_to_cache, cache, done_tasks>>
    /\ UNCHANGED notSched

\* a worker: the end of the with block, return True
WorkerRelease(s) ==
    /\ wpc[s] = "write"
    /\ PartsWritten(s) = DiffParts
    /\ lock' = IF lock = s THEN LockFree ELSE lock
    /\ Finish(s, "True")
    /\ UNCHANGED <<options, swrite_back, persisted, spc, pending, out, files, sreport, cancelled,
                   sources_to_cache, cache, done_tasks>>
    /\ UNCHANGED notSched

\* the signal handler: every task that has not ended is cancelled; a job
\* the executor has not started is dropped, a worker that runs goes on
Cancel ==
    /\ spc = "wait"
    /\ \E s \in pending : status[s] = "running"
    /\ status' = [s \in Sources |->
                     IF s \in pending /\ status[s] = "running" THEN "cancelled"
                     ELSE status[s]]
    /\ \E dropped \in SUBSET {s \in pending : wpc[s] = "format"} :
         wpc' = [s \in Sources |-> IF s \in dropped THEN "end" ELSE wpc[s]]
    /\ UNCHANGED <<options, swrite_back, persisted, spc, pending, lock, out, files, sreport,
                   cancelled, sources_to_cache, cache, done_tasks>>
    /\ UNCHANGED notSched

\* schedule_formatting: await asyncio.wait(pending, FIRST_COMPLETED)
Wait ==
    /\ spc = "wait"
    /\ \E d \in SUBSET {s \in pending : status[s] # "running"} :
         /\ d # {}
         /\ done_tasks' = d
    /\ spc' = "for"
    /\ UNCHANGED <<options, swrite_back, persisted, pending, status, wpc, lock, out, files,
                   sreport, cancelled, sources_to_cache, cache>>
    /\ UNCHANGED notSched

\* schedule_formatting: one round of the loop over done, and the test of
\* the while loop after the last one
ForTask ==
    /\ spc = "for"
    /\ \E task \in done_tasks :
         LET changed == IF status[task] = "True" THEN "YES" ELSE "NO"
             event == LoopEvent(status[task])
         IN  /\ pending' = pending \ {task}
             /\ done_tasks' = done_tasks \ {task}
             /\ cancelled' = IF event = "cancelled" THEN Append(cancelled, task)
                             ELSE cancelled
             /\ sreport' = IF event = "failed" THEN Append(sreport, SFailed(task))
                           ELSE IF event = "done"
                           THEN Append(sreport, SDone(task, changed))
                           ELSE sreport
             /\ sources_to_cache' =
                   IF event = "done" /\ WorthCaching(swrite_back, changed)
                   THEN Append(sources_to_cache, task)
                   ELSE sources_to_cache
             /\ spc' = IF done_tasks' # {} THEN "for"
                       ELSE IF pending' # {} THEN "wait"
                       ELSE "after"
    /\ UNCHANGED <<options, swrite_back, persisted, status, wpc, lock, out, files, cache>>
    /\ UNCHANGED notSched

\* schedule_formatting after the loop: the cancelled tasks are gathered and
\* the cache is written
ScheduleFormattingEnd ==
    /\ spc = "after"
    /\ cache' = {sources_to_cache[i] : i \in DOMAIN sources_to_cache}
    /\ spc' = "returned"
    /\ UNCHANGED <<options, swrite_back, persisted, pending, status, wpc, lock, out, files,
                   sreport, cancelled, sources_to_cache, done_tasks>>
    /\ UNCHANGED notSched

InitSchedule ==
    /\ OrchIdle
    /\ QuoteIdle
    /\ FmtIdle
    /\ TextIdle
    /\ check \in BOOLEAN
    /\ diff \in BOOLEAN
    /\ color \in BOOLEAN
    /\ swrite_back = from_configuration(check, diff, color)
    /\ persisted \in SUBSET Sources
    /\ spc = "start"
    /\ pending = {}
    /\ status = [s \in Sources |-> "none"]
    /\ wpc = [s \in Sources |-> "idle"]
    /\ lock = LockNone
    /\ out = <<>>
    /\ files = [s \in Sources |-> "untouched"]
    /\ sreport = <<>>
    /\ cancelled = <<>>
    /\ sources_to_cache = <<>>
    /\ cache = {}
    /\ done_tasks = {}

NextSchedule ==
    \/ ScheduleFormatting
    \/ \E s \in Sources : WorkerFormat(s)
    \/ \E s \in Sources : WorkerAcquire(s)
    \/ \E s \in Sources : WorkerWrite(s)
    \/ \E s \in Sources : WorkerRelease(s)
    \/ Cancel
    \/ Wait
    \/ ForTask
    \/ ScheduleFormattingEnd

SpecSchedule == InitSchedule /\ [][NextSchedule]_vars

---------------------------------------------------------------------------
(* Claims about the concurrent run *)

\* the sources that got a task
Scheduled == {s \in Sources : status[s] \notin {"none", "cached"}}

ReportedAs(s, call) ==
    Cardinality({i \in DOMAIN sreport :
                    sreport[i].source = s /\ sreport[i].call = call})

InCancelled(s) == Cardinality({i \in DOMAIN cancelled : cancelled[i] = s})

Accounts(s) == ReportedAs(s, "done") + ReportedAs(s, "failed") + InCancelled(s)

\* C16: every source that is not served from the cache is accounted for at
\* most once while schedule_formatting runs and exactly once when it has
\* returned: with report.done when its task returned (changed YES for True,
\* NO for False), with report.failed when its task raised, in the cancelled
\* list when it was cancelled; the tasks that are left are still awaited
\* after a task raised, and the wait loop runs while a task is pending and
\* ends when none is.
C16_AccountedExactlyOnce ==
    /\ \A s \in Scheduled :
          /\ Accounts(s) <= 1
          /\ s \in pending => Accounts(s) = 0
          /\ s \notin pending =>
                /\ Accounts(s) = 1
                /\ status[s] = "True" =>
                      SDone(s, "YES") \in {sreport[i] : i \in DOMAIN sreport}
                /\ status[s] = "False" =>
                      SDone(s, "NO") \in {sreport[i] : i \in DOMAIN sreport}
                /\ status[s] = "raised" => ReportedAs(s, "failed") = 1
                /\ status[s] = "cancelled" => InCancelled(s) = 1
    /\ spc = "wait" => pending # {}
    /\ spc = "for" => done_tasks # {} /\ done_tasks \subseteq pending
    /\ spc \in {"after", "returned"} => pending = {}

\* the task of the first source raised and was reported as failed, and the
\* task of the second was awaited after that and reported as done
C16_Witness ==
    /\ spc = "returned"
    /\ MaxSources >= 2
    /\ sreport = <<SFailed(1), SDone(2, "YES")>>
    /\ cache = {2}

\* no two parts of one diff have a part of another diff between them
NotInterleaved ==
    \A i, j \in DOMAIN out :
        (i < j /\ out[i][1] = out[j][1]) =>
            \A k \in i..j : out[k][1] = out[i][1]

\* C17: with DIFF or COLOR_DIFF schedule_formatting makes one lock before
\* the tasks start, a worker writes its diff to standard output only while
\* it holds that lock, and the diffs of two workers do not interleave; with
\* every other write_back there is no lock and no worker writes to standard
\* output.
C17_DiffsUnderLock ==
    /\ (swrite_back \in DiffModes /\ spc \notin {"start", "returned"}) =>
          lock # LockNone
    /\ swrite_back \in DiffModes =>
          /\ \A s \in Sources : wpc[s] = "write" => lock = s
          /\ NotInterleaved
    /\ swrite_back \notin DiffModes =>
          /\ lock = LockNone
          /\ out = <<>>
          /\ \A s \in Sources : wpc[s] \notin {"acquire", "write"}

\* the worker of one source waits for the lock while the worker of another
\* has written the first part of its diff
C17_Witness ==
    /\ swrite_back = "DIFF"
    /\ \E s, t \in Sources :
          /\ s # t
          /\ lock = s
          /\ wpc[s] = "write"
          /\ wpc[t] = "acquire"
          /\ out = << <<s, 1>> >>


\* C18: a file is rewritten only in a run whose write_back is YES, and
\* WriteBack.from_configuration gives YES only when neither check nor diff
\* is set: with check or diff requested every file is left as it was, at
\* every point of the run.
C18_RewrittenOnlyWithYes ==
    /\ swrite_back = "YES" => ~check /\ ~diff
    /\ \A s \in Sources : files[s] = "rewritten" => swrite_back = "YES"
    /\ (check \/ diff) => \A s \in Sources : files[s] = "untouched"

\* a run without check and diff has rewritten the first file and reported
\* it as changed, and has left alone the second, which needed no change
C18_Witness ==
    /\ ~check
    /\ ~diff
    /\ swrite_back = "YES"
    /\ spc = "returned"
    /\ files = [s \in Sources |-> IF s = 1 THEN "rewritten" ELSE "untouched"]
    /\ \E i \in DOMAIN sreport : sreport[i] = SDone(1, "YES")
    /\ \E i \in DOMAIN sreport : sreport[i] = SDone(MaxSources, "NO")


---------------------------------------------------------------------------
(* Claims about the order of the steps of one call *)

\* the calls of format_file_contents with the checks, when every one of
\* them passes: the first pass, the two checks, and the second pass that
\* assert_stable makes
FullRun ==
    format_str_calls(EmptyText) \o <<"assert_equivalent", "assert_stable">>
        \o format_str_calls(EmptyText)

IsPrefix(s, t) == Len(s) <= Len(t) /\ s = SubSeq(t, 1, Len(s))

\* the entry x of the log always comes right after an entry y
ComesRightAfter(x, y) ==
    \A i \in DOMAIN log : log[i] = x => i > 1 /\ log[i - 1] = y

\* C19: in a call of format_file_contents that makes the checks (fast and
\* mode.is_ipynb false) the steps come in the order parse, normalize_fmt_off,
\* line rendering, assert_equivalent, assert_stable, the last one with its
\* own pass of the formatter; normalize_fmt_off has returned before a line
\* is rendered, in every pass and for every cell of a notebook, and
\* assert_stable starts only after assert_equivalent has passed on the same
\* pair of texts.
C19_StepsInOrder ==
    /\ ChecksWanted => IsPrefix(log, FullRun)
    /\ ComesRightAfter("lib2to3_parse", "format_str")
    /\ ComesRightAfter("normalize_fmt_off", "lib2to3_parse")
    /\ ComesRightAfter("LineGenerator", "normalize_fmt_off")
    /\ ComesRightAfter("assert_equivalent", "LineGenerator")
    /\ ComesRightAfter("assert_stable", "assert_equivalent")
    /\ pc = "assert_stable" =>
          /\ log[Len(log)] = "assert_equivalent"
          /\ Equivalent(chk[1], chk[2])

\* a call with the checks has gone through all the steps and returned the
\* rewritten text
C19_Witness ==
    /\ ChecksWanted
    /\ pc = "done"
    /\ Returned
    /\ result # src
    /\ log = FullRun


---------------------------------------------------------------------------
(* Claims about what the conversion leaves in front of the frozen leaf *)

\* the part of the prefix p that stands before the comment of the marker:
\* the lines up to the last comment before it and one newline for every
\* blank line between the two; all of p when the marker is not in it
BeforeMarker(p, marker) ==
    LET lines == SplitLines(p)
        m == MarkerLine(lines, 1, {marker})
        before == {i \in 1..(m - 1) : Contains(lines[i], "#")}
        lastc == IF before = {} THEN 0
                 ELSE CHOOSE i \in before : \A j \in before : j <= i
    IN  IF m = 0 THEN p
        ELSE LinesText(lines, 1, lastc) \o Newlines(m - 1 - lastc)

\* a step of convert_one_fmt_off_pair that puts a frozen leaf into the tree
\* keeps in the prefix of that leaf what the first node it takes had in its
\* prefix before the marker, and the text of the tree has it in front of
\* the frozen text
KeepsPreceding(markers) ==
    (frozen' # frozen /\ comment.value \in markers) =>
        LET new == frozen'[Len(frozen')].id
            kept == BeforeMarker(node_prefix(tree, ignored_nodes[1]),
                                 comment.value)
        IN  /\ tree'[new].prefix = kept
            /\ Contains(node_str(tree', Root), kept \o tree'[new].value)

\* C20: after convert_one_fmt_off_pair has converted a # fmt: off or a
\* # fmt: skip marker, the prefix of the frozen leaf is the part of the
\* prefix of the first node of the span that stood before the marker
\* comment, with the blank lines before the marker, so that every comment
\* and blank line before the span is still in the text of the tree.
C20_PrecedingPreserved == [][KeepsPreceding(FMT_PASS)]_vars

\* the same for the # fmt: off markers alone
C20_PrecedingPreservedOff == [][KeepsPreceding(FMT_OFF)]_vars


---------------------------------------------------------------------------
(* Claims about the edit of the tree that one conversion makes *)

\* the sequence without its members in the set
Without(seq, S) ==
    LET Keep(x) == x \notin S
    IN  SelectSeq(seq, Keep)

\* the set of the members of a sequence
Range(seq) == {seq[i] : i \in DOMAIN seq}

\* the step is a conversion that succeeded
Converts == frozen' # frozen

\* C21: a conversion that succeeds takes every node of the span out of the
\* tree and puts in exactly one STANDALONE_COMMENT leaf, under the parent
\* the first node of the span had and at the index that node had; the
\* other children keep their order and every other node its parent; the
\* nodes of the span end without a parent.
C21_OneLeafForTheSpan ==
    [][Converts =>
        LET first == ignored_nodes[1]
            parent == tree[first].parent
            index == IndexOf(tree[parent].children, first)
            spanned == Range(ignored_nodes)
            new == Len(tree) + 1
        IN  /\ Len(tree') = Len(tree) + 1
            /\ tree'[new].leaf
            /\ tree'[new].type = "STANDALONE_COMMENT"
            /\ tree'[new].parent = parent
            /\ tree'[parent].children[index] = new
            /\ \A n \in 1..Len(tree) :
                  /\ Range(tree'[n].children) \cap spanned = {}
                  /\ Without(tree'[n].children, {new})
                        = Without(tree[n].children, spanned)
                  /\ n \in spanned => tree'[n].parent = 0
                  /\ n \notin spanned => tree'[n].parent = tree[n].parent
                  /\ n # parent => new \notin Range(tree'[n].children)
    ]_vars

\* a conversion has replaced three siblings by one leaf, which stands
\* first under their parent with the sibling that was not in the span
\* after it
C21_Witness ==
    /\ fpc = "leaf"
    /\ Len(frozen) = 1
    /\ Len(frozen[1].nodes) = 3
    /\ LET new == frozen[1].id
           parent == tree[new].parent
       IN  /\ parent # 0
           /\ Len(tree[parent].children) = 2
           /\ tree[parent].children[1] = new
           /\ tree[tree[parent].children[2]].parent = parent
    /\ \A i \in DOMAIN frozen[1].nodes : tree[frozen[1].nodes[i]].parent = 0


---------------------------------------------------------------------------
(* Claims about the span of a # fmt: skip marker *)

\* the step is the walk of generate_ignored_nodes for a # fmt: skip marker
YieldsForSkip ==
    /\ fpc = "generate"
    /\ comment.value \in FMT_SKIP
    /\ fpc' = "convert"

\* the siblings before the leaf l, from the last one whose prefix holds a
\* newline (or the first child) to the one right before l
RunBefore(t, l) ==
    LET sibs == t[t[l].parent].children
        i == IndexOf(sibs, l)
        starts == {j \in 1..(i - 1) :
                      j = 1 \/ Contains(node_prefix(t, sibs[j]), "\n")}
        from == CHOOSE j \in starts : \A k \in starts : k <= j
    IN  SubSeq(sibs, from, i - 1)

\* the span is what the marker of the leaf l stands for
SkipSpanAsStated(l) ==
    IF prev_sibling(tree, l) # 0
    THEN /\ ignored_nodes' = RunBefore(tree, l)
         /\ \A i \in DOMAIN ignored_nodes' :
               l \notin Range(leaves(tree, ignored_nodes'[i]))
    ELSE ignored_nodes' = <<tree[l].parent>>

\* C22: for a # fmt: skip marker in the prefix of a leaf with a previous
\* sibling the span is the run of siblings that ends right before the leaf
\* and goes back through the siblings whose prefix holds no newline, and the
\* leaf is not in it; for a leaf without a previous sibling the span is the
\* parent of the leaf.
C22_SkipSpan == [][YieldsForSkip => SkipSpanAsStated(CurLeaf)]_vars

\* the same for the markers that stand in the prefix letter for letter as
\* the comment list gives them
C22_SkipSpanVerbatim ==
    [][(YieldsForSkip /\ Contains(tree[CurLeaf].prefix, comment.value))
          => SkipSpanAsStated(CurLeaf)]_vars


---------------------------------------------------------------------------
(* Claims about the markers that do not count and the calls that convert  *)
(* nothing                                                                 *)

\* the tree the parser made of the text
OrigTree == Inputs[CHOOSE i \in 1..Len(Inputs) : Inputs[i].text = source].tree

\* the tree at the start of the call of convert_one_fmt_off_pair that is
\* under way: the tree the call before it left
CallStartTree == IF frozen = <<>> THEN OrigTree ELSE frozen[Len(frozen)].tree

\* the comment c of the prefix of the leaf l is a marker the extractor
\* typed as inline that does not count: a disable marker after a leaf that
\* is not whitespace, a skip marker after a leaf that is whitespace
InlineOutOfPlace(t, l, c) ==
    LET prev == preceding_leaf(t, l)
    IN  /\ c.type = "COMMENT"
        /\ prev # 0
        /\ \/ c.value \in FMT_OFF /\ t[prev].type \notin WHITESPACE
           \/ c.value \in FMT_SKIP /\ t[prev].type \in WHITESPACE

\* the step takes a marker from the comments of the leaf
TakesMarker ==
    /\ fpc = "comment"
    /\ comments_left # <<>>
    /\ Head(comments_left).value \in FMT_PASS

\* C23: a marker typed as inline does not count when it is a disable marker
\* whose preceding leaf is not NEWLINE, INDENT or DEDENT, or a skip marker
\* whose preceding leaf is one of these: the loop goes on to the next comment
\* and nothing is converted for it; every other marker starts the walk.  A
\* call that returns False leaves the tree as it was when the call began.
C23_DisqualifiedAndUntouched ==
    /\ [][TakesMarker =>
            IF InlineOutOfPlace(tree, CurLeaf, Head(comments_left))
            THEN /\ fpc' = "comment"
                 /\ tree' = tree
                 /\ frozen' = frozen
                 /\ ignored_nodes' = <<>>
                 /\ previous_consumed' = previous_consumed
            ELSE fpc' = "generate"]_vars
    /\ [](fpc \in {"leaf", "comment", "done"} => tree = CallStartTree)

\* the call found a # fmt: off after code on the same line, passed it over,
\* and returned False with the tree as the parser made it
C23_Witness ==
    /\ fpc = "done"
    /\ frozen = <<>>
    /\ tree = OrigTree
    /\ \E l \in Range(leaves(tree, Root)) :
          \E i \in DOMAIN list_comments(tree[l].prefix, FALSE) :
              LET c == list_comments(tree[l].prefix, FALSE)[i]
              IN  /\ c.value \in FMT_OFF
                  /\ InlineOutOfPlace(tree, l, c)


\* C24: the two assertions of convert_one_fmt_off_pair hold for every tree
\* and every marker: the first node of a span that is not empty has a
\* parent and its removal gives an index, so the isolation never stops at
\* an assertion, with the tree edited in part.
C24_AssertionsHold == fpc # "AssertionError"


---------------------------------------------------------------------------
(* Claims about the f-strings and the meaning of the literals the string   *)
(* literal normalizer returns                                              *)

\* the literal is an f-string whose body, written for the other quote, has
\* a backslash inside an interpolated expression
BackslashIntoField(s) ==
    /\ orig_quote(s) # "\"\"\""
    /\ is_fstring(s)
    /\ BackslashInFields(swapped_body(s), 1)

\* C25 as stated: when the change of quotes would put a backslash inside an
\* interpolated expression of an f-string, the function returns its input,
\* character for character.
C25_InputUnchanged ==
    (qpc = "once" /\ BackslashIntoField(qin)) => qout = qin

\* C25 as amended: when the change of quotes would put a backslash inside
\* an interpolated expression of an f-string, the function keeps the prefix
\* and the quotes and returns the body with the backslashes before the
\* other quote removed, which is the input when the body has no such
\* escape.
C25_QuotesKept ==
    (qpc = "once" /\ BackslashIntoField(qin)) =>
        /\ quote_prefix(qout) = quote_prefix(qin)
        /\ orig_quote(qout) = orig_quote(qin)
        /\ quote_body(qout) =
              IF is_raw(qin) THEN quote_body(qin)
              ELSE sub_twice(TRUE, new_quote(qin), quote_body(qin))
        /\ ~Contains(quote_body(qin), "\\" \o new_quote(qin)) => qout = qin

\* the f-string F'{\"}' came back as F'{"}': the quotes were kept and the
\* escape before the double quote was removed
C25_Witness ==
    /\ qpc = "once"
    /\ BackslashIntoField(qin)
    /\ orig_quote(qin) = "'"
    /\ qout # qin
    /\ Len(qout) = Len(qin) - 1
    /\ orig_quote(qout) = "'"


\* the character a backslash escape of a string literal stands for; an
\* escape the language does not know keeps its backslash
Unescape(c) ==
    CASE c = "\\" -> "\\"
      [] c = "'" -> "'"
      [] c = "\"" -> "\""
      [] c = "a" -> "BEL"
      [] OTHER -> "\\" \o c

\* the characters a body denotes after the decoding of its escapes
RECURSIVE Decode(_, _)
Decode(b, i) ==
    IF i > Len(b) THEN <<>>
    ELSE IF Ch(b, i) = "\\" /\ i < Len(b)
         THEN <<Unescape(Ch(b, i + 1))>> \o Decode(b, i + 2)
    ELSE <<Ch(b, i)>> \o Decode(b, i + 1)

RECURSIVE Literally(_, _)
Literally(b, i) ==
    IF i > Len(b) THEN <<>> ELSE <<Ch(b, i)>> \o Literally(b, i + 1)

\* the character sequence a literal denotes
Denoted(s) ==
    IF is_raw(s) THEN Literally(quote_body(s), 1)
    ELSE Decode(quote_body(s), 1)

\* the literal is its prefix, an opening quote, a body that no unescaped
\* quote closes early, and the same quote again
WellFormed(s) ==
    LET Q == orig_quote(s)
        p == quote_prefix(s)
    IN  /\ Len(s) >= Len(p) + 2 * Len(Q)
        /\ Slice(s, Len(p), Len(p) + Len(Q)) = Q
        /\ Slice(s, Len(s) - Len(Q), Len(s)) = Q
        /\ LStrip(p, STRING_PREFIX_CHARS) = ""
        /\ ValidLiteral(Q, quote_body(s))

\* C26: for every literal that is not an f-string, the result denotes the
\* same character sequence as the input (after the decoding of the backslash
\* escapes, or literally for a raw literal, whose body is returned as it
\* was), has the same prefix, and is well formed: its delimiters match and
\* no unescaped quote of its body closes it early.
C26_MeaningPreserved ==
    (qpc = "once" /\ ~is_fstring(qin)) =>
        /\ Denoted(qout) = Denoted(qin)
        /\ quote_prefix(qout) = quote_prefix(qin)
        /\ is_raw(qin) => quote_body(qout) = quote_body(qin)
        /\ WellFormed(qout)

\* a literal that is neither an f-string nor raw came back with the other
\* quote and another body, which denotes the same characters
C26_Witness ==
    /\ qpc = "once"
    /\ ~is_fstring(qin)
    /\ ~is_raw(qin)
    /\ orig_quote(qout) # orig_quote(qin)
    /\ quote_body(qout) # quote_body(qin)
    /\ Len(Denoted(qin)) >= 2
    /\ Len(Denoted(qin)) < Len(quote_body(qin))


---------------------------------------------------------------------------
(* Claims about the scanner of the f-string expressions *)

\* the character of s at position i, counted from 0
At(s, i) == Ch(s, i + 1)

\* the quote that opens a quoted string at position i: three equal quotes
\* or one, "" when there is no quote at i
QuoteAt(s, i) ==
    IF Slice(s, i, i + 3) \in {"'''", "\"\"\""} THEN Slice(s, i, i + 3)
    ELSE IF i < Len(s) /\ At(s, i) \in {"'", "\""} THEN At(s, i)
    ELSE ""

\* the position after the quoted string that the quote d opens at i: after
\* the first d that follows the opening one, past the end when there is none
AfterQuoted(s, i, d) ==
    LET closes == {k \in (i + Len(d))..Len(s) : Slice(s, k, k + Len(d)) = d}
    IN  IF closes = {} THEN Len(s) + Len(d)
        ELSE (CHOOSE k \in closes : \A m \in closes : k <= m) + Len(d)

\* the position of the brace that brings the nesting depth back to 0, read
\* from position i at the given depth with the quoted strings passed over;
\* -1 when the depth never comes back to 0
RECURSIVE BackToZero(_, _, _)
BackToZero(s, i, depth) ==
    IF i >= Len(s) THEN -1
    ELSE IF At(s, i) = "{" THEN BackToZero(s, i + 1, depth + 1)
    ELSE IF At(s, i) = "}"
         THEN IF depth = 1 THEN i ELSE BackToZero(s, i + 1, depth - 1)
    ELSE IF QuoteAt(s, i) # ""
         THEN BackToZero(s, AfterQuoted(s, i, QuoteAt(s, i)), depth)
    ELSE BackToZero(s, i + 1, depth)

\* the spans of the expressions, read at depth 0 from position i: a {{ is
\* literal text; any other opening brace starts an expression, which ends at
\* the brace that brings the depth back to 0
RECURSIVE ExpressionSpans(_, _)
ExpressionSpans(s, i) ==
    IF i >= Len(s) THEN <<>>
    ELSE IF At(s, i) = "{" /\ i + 1 < Len(s) /\ At(s, i + 1) = "{"
         THEN ExpressionSpans(s, i + 2)
    ELSE IF At(s, i) = "{"
         THEN LET c == BackToZero(s, i + 1, 1)
              IN  IF c = -1 THEN <<>>
                  ELSE << <<i, c + 1>> >> \o ExpressionSpans(s, c + 1)
    ELSE ExpressionSpans(s, i + 1)

\* C27: iterate_f_string ends on every string, a well-formed f-string or
\* not, and yields half-open spans (j, k) inside the string, in increasing
\* order and pairwise disjoint, each from an opening brace s[j] to a closing
\* brace s[k-1]: j is an opening brace met at depth 0 that does not start a
\* literal {{, k-1 is the brace that brings the depth back to 0, and the
\* braces inside a quoted string of an expression are not counted.
C27_SpansOfExpressions ==
    (tfn = "iterate_f_string" /\ tpc = "done") =>
        /\ \A n \in 1..Len(tout) :
              /\ 0 <= tout[n][1]
              /\ tout[n][1] < tout[n][2]
              /\ tout[n][2] <= Len(targ)
              /\ At(targ, tout[n][1]) = "{"
              /\ At(targ, tout[n][2] - 1) = "}"
              /\ tout[n][2] - 1 = BackToZero(targ, tout[n][1] + 1, 1)
              /\ n > 1 => tout[n - 1][2] <= tout[n][1]
        /\ tout = ExpressionSpans(targ, 0)

\* the scanner has yielded the one span of f"{'}'}", which holds a closing
\* brace inside a quoted string
C27_Witness ==
    /\ tfn = "iterate_f_string"
    /\ tpc = "done"
    /\ targ = "f\"{'}'}\""
    /\ tout = << <<2, 7>> >>


---------------------------------------------------------------------------
(* Claims about the characters the comment extractor counts *)

\* the number of characters of s up to and with its n-th line feed, the
\* length of s when it has fewer
RECURSIVE ThroughLine(_, _)
ThroughLine(s, n) ==
    LET k == Find(s, "\n")
    IN  IF n = 0 THEN 0
        ELSE IF k = 0 THEN Len(s)
        ELSE k + ThroughLine(Slice(s, k, Len(s)), n - 1)

\* the line of the n-th record: the n-th comment line of the prefix
LineOfRecord(n) ==
    CHOOSE k \in CommentLineIndexes :
        Cardinality({i \in CommentLineIndexes : i <= k}) = n

\* the record n cuts the prefix right after the line of its comment
CutsAfterOwnLine(n) ==
    LET through == ThroughLine(targ, LineOfRecord(n))
    IN  /\ Slice(targ, 0, tout[n].consumed) = Slice(targ, 0, through)
        /\ Slice(targ, tout[n].consumed, Len(targ)) = Slice(targ, through, Len(targ))
        /\ through < Len(targ) => tout[n].consumed = through

UsesCRLF == Contains(targ, "\r\n")

\* C28: consumed, in every record list_comments returns, is the number of
\* characters of the prefix from its start through the terminator of the
\* line of the comment, so that prefix[:consumed] ends right after that line
\* and prefix[consumed:] is the text that follows it, and consumed grows
\* strictly from one record to the next, with LF and with CRLF line endings.
C28_ConsumedThroughOwnLine ==
    (tfn = "list_comments" /\ tpc = "done") =>
        /\ \A n \in 1..Len(tout) : CutsAfterOwnLine(n)
        /\ \A n \in 2..Len(tout) : tout[n - 1].consumed < tout[n].consumed

\* the same for the prefixes whose lines end in LF
C28_ConsumedThroughOwnLineLF ==
    (tfn = "list_comments" /\ tpc = "done" /\ ~UsesCRLF) =>
        /\ \A n \in 1..Len(tout) : CutsAfterOwnLine(n)
        /\ \A n \in 2..Len(tout) : tout[n - 1].consumed < tout[n].consumed

\* with CRLF, consumed still grows strictly from one record to the next
C28_ConsumedGrows ==
    (tfn = "list_comments" /\ tpc = "done") =>
        \A n \in 2..Len(tout) : tout[n - 1].consumed < tout[n].consumed


---------------------------------------------------------------------------
(* The prefix normalizer: normalize_string_prefix of src/black/strings.py *)

\* s[::-1]
RECURSIVE Reversed(_)
Reversed(s) ==
    IF s = "" THEN "" ELSE Reversed(Slice(s, 1, Len(s))) \o Ch(s, 1)

\* lines 143-151: group 1 of STRING_PREFIX_RE is the leading prefix characters
\* and group 2 the rest; the F and the B of the prefix are made lower case and
\* its U and u are dropped
lowered_prefix(s) ==
    Replace(Replace(Replace(Replace(get_string_prefix(s), "F", "f"),
                            "B", "b"), "U", ""), "u", "")

\* a normalizer that leaves the two characters in the order they have
normalize_string_prefix_unordered(s) ==
    lowered_prefix(s) \o Slice(s, Len(get_string_prefix(s)), Len(s))

\* lines 141-156
normalize_string_prefix(s) ==
    LET new_prefix == lowered_prefix(s)
        ordered == IF Len(new_prefix) = 2 /\ Lower(Ch(new_prefix, 1)) # "r"
                   THEN Reversed(new_prefix)
                   ELSE new_prefix
    IN  ordered \o Slice(s, Len(get_string_prefix(s)), Len(s))

\* the longest prefix of the literals
MaxPrefixLen == 2

RECURSIVE PrefixStrings(_)
PrefixStrings(n) ==
    IF n = 0 THEN {""}
    ELSE PrefixStrings(n - 1)
         \cup {p \o Ch(STRING_PREFIX_CHARS, k) :
                  p \in PrefixStrings(n - 1), k \in 1..Len(STRING_PREFIX_CHARS)}

\* the quoted parts: prefix letters inside the quotes belong to the body
QuotedParts == {"\"a\"", "'uF'", "\"\"\"B\nr\"\"\"", "''"}

PrefixedLiterals == {p \o q : p \in PrefixStrings(MaxPrefixLen), q \in QuotedParts}

NormalizeStringPrefix ==
    /\ tpc = "start"
    /\ tfn = "normalize_string_prefix"
    /\ tout' = normalize_string_prefix(targ)
    /\ tpc' = "done"
    /\ UNCHANGED <<tfn, targ, targ2>>
    /\ UNCHANGED notText

InitPrefix ==
    /\ OrchIdle
    /\ QuoteIdle
    /\ FmtIdle
    /\ SchedIdle
    /\ tfn = "normalize_string_prefix"
    /\ targ \in PrefixedLiterals
    /\ targ2 = ""
    /\ tout = ""
    /\ tpc = "start"

NextPrefix == NormalizeStringPrefix

SpecPrefix == InitPrefix /\ [][NextPrefix]_vars

---------------------------------------------------------------------------
(* Claims about the prefix normalizer *)

\* the prefix letters that stay, in their order: F and B in lower case, no U
\* and no u, every other letter as it is
RECURSIVE KeptLetters(_)
KeptLetters(p) ==
    IF p = "" THEN ""
    ELSE LET c == Ch(p, 1)
             k == IF c \in {"U", "u"} THEN ""
                  ELSE IF c = "F" THEN "f"
                  ELSE IF c = "B" THEN "b"
                  ELSE c
         IN  k \o KeptLetters(Slice(p, 1, Len(p)))

IsR(c) == c \in {"r", "R"}

PrefixOut == Slice(tout, 0, Len(tout) - Len(AfterPrefix(targ)))

\* C29: normalize_string_prefix makes the F and the B of the prefix lower
\* case, drops every U and u, leaves the quotes and the body as they are,
\* and, when exactly two prefix letters stay, puts the r first: the two are
\* swapped when the r is last, and kept when the other letter is last.
C29_PrefixNormalized ==
    (tfn = "normalize_string_prefix" /\ tpc = "done") =>
        LET kept == KeptLetters(get_string_prefix(targ))
        IN  /\ Len(tout) >= Len(AfterPrefix(targ))
            /\ Slice(tout, Len(PrefixOut), Len(tout)) = AfterPrefix(targ)
            /\ Len(kept) # 2 => PrefixOut = kept
            /\ Len(kept) = 2 =>
                  /\ PrefixOut \in {kept, Reversed(kept)}
                  /\ (IsR(Ch(kept, 1)) /\ ~IsR(Ch(kept, 2))) => PrefixOut = kept
                  /\ (~IsR(Ch(kept, 1)) /\ IsR(Ch(kept, 2))) =>
                        PrefixOut = Reversed(kept)

\* the literal BR'uF' came back as Rb'uF': the B in lower case and after the
\* R, the body with its own letters as they were
C29_Witness ==
    /\ tfn = "normalize_string_prefix"
    /\ tpc = "done"
    /\ targ = "BR'uF'"
    /\ tout = "Rb'uF'"


---------------------------------------------------------------------------
(* Claims about the cache of the concurrent run *)

DoneWith(s, changed) == \E i \in DOMAIN sreport : sreport[i] = SDone(s, changed)

\* the source was formatted to the end without an error, and report.done
\* was called for it
FormattedWithoutError(s) ==
    /\ status[s] \in {"True", "False"}
    /\ wpc[s] = "end"
    /\ DoneWith(s, IF status[s] = "True" THEN "YES" ELSE "NO")

\* what the cache may hold: sources that were formatted without an error and
\* written back, or checked and found unchanged; nothing of a run in diff mode
CacheOnlyAfterSuccess ==
    /\ \A s \in cache :
          /\ FormattedWithoutError(s)
          /\ \/ swrite_back = "YES"
             \/ swrite_back = "CHECK" /\ status[s] = "False"
          /\ (swrite_back = "YES" /\ status[s] = "True") => files[s] = "rewritten"
    /\ \A s \in Sources :
          status[s] \in {"raised", "cancelled"} => s \notin cache
    /\ \A s \in Sources :
          (swrite_back = "CHECK" /\ status[s] = "True") => s \notin cache
    /\ swrite_back \in DiffModes => cache = {}

\* the source is reported CACHED and no worker formats it
ServedFromCache(s) ==
    /\ status[s] = "cached"
    /\ wpc[s] = "idle"
    /\ files[s] = "untouched"
    /\ DoneWith(s, "CACHED")
    /\ s \notin pending

\* C30 as stated: a source is in the cache only after it was formatted
\* without an error and was written back (write_back YES) or checked and
\* found unchanged (write_back CHECK); a source whose formatting raised or
\* was cancelled, a source found changed under CHECK and every source of a
\* run in diff mode is never written to the cache; and a source whose stored
\* fingerprint matches is reported CACHED and is not formatted.
C30_CacheDiscipline ==
    /\ CacheOnlyAfterSuccess
    /\ spc \notin {"idle", "start"} =>
          \A s \in persisted : ServedFromCache(s)

\* C30 as amended: the same, where the sources served from the cache are
\* those of a run that is not in diff mode; a run in diff mode does not read
\* the cache, reports no source CACHED and formats every source.
C30_CacheDisciplineNoDiff ==
    /\ CacheOnlyAfterSuccess
    /\ (spc \notin {"idle", "start"} /\ swrite_back \notin DiffModes) =>
          \A s \in Sources : s \in persisted <=> ServedFromCache(s)
    /\ (spc \notin {"idle", "start"} /\ swrite_back \in DiffModes) =>
          \A s \in Sources : status[s] # "cached" /\ ~DoneWith(s, "CACHED")

\* a run with write-back has ended: source 2 was served from the cache,
\* source 1 was rewritten, reported and written to the cache
C30_Witness ==
    /\ spc = "returned"
    /\ swrite_back = "YES"
    /\ persisted = {2}
    /\ sreport = <<SDone(2, "CACHED"), SDone(1, "YES")>>
    /\ files[1] = "rewritten"
    /\ cache = {1}

===========================================================================
